---- MODULE Spec2Model ----
(***************************************************************************)
(* Model of the resume-ranker weighting and matching engine.               *)
(*                                                                         *)
(*   src/src/models.py               Job.calculate_skill_weights,          *)
(*                                   AttributeMatch.get_match_quality_...   *)
(*   src/src/matching_engine.py      MatchingEngine.match_category         *)
(*   src/src/candidate_processor.py  CandidateProcessor.evaluate_*         *)
(*   src/src/embedding_manager.py    EmbeddingManager (cache, query)       *)
(*                                                                         *)
(* Python floats are modelled as exact rationals <<num, den>> (den > 0,    *)
(* lowest terms): rounding error and IEEE overflow at extreme magnitudes   *)
(* are outside the model.  Optional values are sequences of length <= 1.   *)
(***************************************************************************)
EXTENDS Integers, Sequences, FiniteSets, TLC

VARIABLES
    job,              \* the Job handed to the operation under way
    score,            \* the argument of get_match_quality_from_score
    margs,            \* the arguments of a direct match_category call
    names,            \* candidate_names handed to evaluate_candidates
    provider,         \* what the vector store answers to a similarity query
    store,            \* ids held by storage.collection
    api_calls_made,   \* azure_client.api_calls_made
    cache_hits,       \* storage.cache_hits
    lookups,          \* number of collection.get calls made by get_embedding
    query_log,        \* the collection.query calls made, in order
    pc,               \* position of the operation under way
    weights,          \* result of calculate_skill_weights
    quality,          \* result of get_match_quality_from_score
    category_match,   \* result of a direct match_category call
    ci,               \* evaluate_candidates: index of the next candidate
    ki,               \* evaluate_candidate: index of the next category
    category_results, \* evaluate_candidate: its local list
    evaluations,      \* evaluate_candidates: its local list / its result
    match_calls,      \* categories match_category was invoked with, per evaluation
    faults,           \* the external calls that fail: embedder texts, query keys
    raised,           \* the exception propagating out of the operation, if any
    embed_log,        \* the texts of the client.embeddings.create calls made, in order
    accessor,         \* the arguments of a read accessor call on an evaluation
    accessor_result,  \* what the accessor returned
    weight_computations, \* number of job.calculate_skill_weights() calls made
    add_log,          \* the id batches handed to collection.add, in order
    calls             \* the get_embeddings_with_storage calls under way, by caller

vars == <<job, score, margs, names, provider, store, api_calls_made, cache_hits,
          lookups, query_log, pc, weights, quality, category_match, ci, ki,
          category_results, evaluations, match_calls, faults, raised, embed_log,
          accessor, accessor_result, weight_computations, add_log, calls>>

----------------------------------------------------------------------------
(* Bounds of the model.                                                    *)

MaxSkills == 2
MaxReqs == 2
MaxCandidates == 3
ScoreSteps == 100
MaxMatches == 3
MaxTopN == 2
MaxPerKind == 2
MaxHalfYears == 14
MaxItems == 2

----------------------------------------------------------------------------
(* Exact rational arithmetic standing in for Python float arithmetic.      *)

Abs(n) == IF n < 0 THEN 0 - n ELSE n

RECURSIVE GCD(_, _)
GCD(a, b) == IF b = 0 THEN a ELSE GCD(b, a % b)

R(n, d) == LET g == GCD(Abs(n), d) IN <<n \div g, d \div g>>

Zero == <<0, 1>>
One == <<1, 1>>

RAdd(a, b) == R(a[1] * b[2] + b[1] * a[2], a[2] * b[2])
RSub(a, b) == R(a[1] * b[2] - b[1] * a[2], a[2] * b[2])
RMul(a, b) == R(a[1] * b[1], a[2] * b[2])
\* Python raises ZeroDivisionError for b = 0; every division in the modelled
\* code is guarded, so RDiv is only applied to b # 0.
RDiv(a, b) == IF b[1] < 0 THEN R((0 - a[1]) * b[2], a[2] * (0 - b[1]))
                          ELSE R(a[1] * b[2], a[2] * b[1])
RLe(a, b) == a[1] * b[2] <= b[1] * a[2]
RLt(a, b) == a[1] * b[2] < b[1] * a[2]
RGe(a, b) == RLe(b, a)
RGt(a, b) == RLt(b, a)
RMax(a, b) == IF RLt(a, b) THEN b ELSE a
RMin(a, b) == IF RLt(b, a) THEN b ELSE a
FromInt(n) == <<n, 1>>

RECURSIVE RSum(_)
RSum(s) == IF s = <<>> THEN Zero ELSE RAdd(Head(s), RSum(Tail(s)))

----------------------------------------------------------------------------
(* models.py: constants and enumerations.                                  *)

EXPERIENCE_THRESHOLD == <<5, 1>>
CORE_WEIGHT_FACTOR_MAX == <<3, 5>>
REQUIRED_MULTIPLIER == <<3, 1>>
NICE_TO_HAVE_MULTIPLIER == <<1, 1>>
TECHNICAL_TOOL_WEIGHT == <<9, 10>>
TECHNICAL_SOFT_WEIGHT == <<1, 10>>
LEADERSHIP_TOOL_WEIGHT == <<2, 5>>
LEADERSHIP_SOFT_WEIGHT == <<3, 5>>

SkillType == {"core", "soft", "tool"}
RoleType == {"technical", "leadership"}
MatchQuality == {"Excellent", "Very Good", "Good", "Fair", "Poor", "Very Poor",
                 "No Match"}

\* JobRequirement(description, weight, skill_type, required)
JobRequirement(d, w, t, r) ==
    [description |-> d, weight |-> w, skill_type |-> t, required |-> r]

----------------------------------------------------------------------------
(* models.py: the weight calculation.                                      *)

\* Faulty variant: the decay reaches 0 at twice the threshold.
core_weight_factor_slow(job_years_experience) ==
    RMax(Zero, RMul(CORE_WEIGHT_FACTOR_MAX,
                    RSub(One, RDiv(job_years_experience,
                                   RMul(FromInt(2), EXPERIENCE_THRESHOLD)))))

\* Faulty variant: the max(0.0, ...) forgotten, the factor goes negative past the
\* threshold.
core_weight_factor_unclamped(job_years_experience) ==
    RMul(CORE_WEIGHT_FACTOR_MAX,
         RSub(One, RDiv(job_years_experience, EXPERIENCE_THRESHOLD)))

core_weight_factor(job_years_experience) ==
    RMax(Zero, RMul(CORE_WEIGHT_FACTOR_MAX,
                    RSub(One, RDiv(job_years_experience, EXPERIENCE_THRESHOLD))))

role_factors(job_role_type, skill_type) ==
    CASE job_role_type = "technical" /\ skill_type = "tool" -> TECHNICAL_TOOL_WEIGHT
      [] job_role_type = "technical" /\ skill_type = "soft" -> TECHNICAL_SOFT_WEIGHT
      [] job_role_type = "leadership" /\ skill_type = "tool" -> LEADERSHIP_TOOL_WEIGHT
      [] job_role_type = "leadership" /\ skill_type = "soft" -> LEADERSHIP_SOFT_WEIGHT
      [] OTHER -> Zero

\* Faulty variant: past the threshold the role share is split over all soft and tool
\* requirements, not over those of the same kind.
calculate_weight_shared_count(skill_type, job_years_experience, job_role_type, skill_type_counts) ==
    LET cwf == core_weight_factor(job_years_experience)
        remaining_weight == RSub(One, cwf)
        core_count == skill_type_counts["core"]
        other_count == skill_type_counts["soft"] + skill_type_counts["tool"]
    IN  IF skill_type = "core"
        THEN IF core_count > 0 THEN RDiv(cwf, FromInt(core_count)) ELSE Zero
        ELSE IF other_count = 0 THEN Zero
        ELSE IF RGe(job_years_experience, EXPERIENCE_THRESHOLD)
             THEN RDiv(RMul(remaining_weight, role_factors(job_role_type, skill_type)),
                       FromInt(other_count))
             ELSE RDiv(remaining_weight, FromInt(other_count))

\* Faulty variant: the role factors applied below the threshold as well.
calculate_weight_role_always(skill_type, job_years_experience, job_role_type, skill_type_counts) ==
    LET cwf == core_weight_factor(job_years_experience)
        remaining_weight == RSub(One, cwf)
        core_count == skill_type_counts["core"]
        skill_count == skill_type_counts[skill_type]
    IN  IF skill_type = "core"
        THEN IF core_count > 0 THEN RDiv(cwf, FromInt(core_count)) ELSE Zero
        ELSE IF skill_count > 0
             THEN RDiv(RMul(remaining_weight, role_factors(job_role_type, skill_type)),
                       FromInt(skill_count))
             ELSE Zero

calculate_weight_with_linear_core_decrease(skill_type, job_years_experience, job_role_type, skill_type_counts) ==
    LET cwf == core_weight_factor(job_years_experience)
        remaining_weight == RSub(One, cwf)
        core_count == skill_type_counts["core"]
        skill_count == skill_type_counts[skill_type]
        other_count == skill_type_counts["soft"] + skill_type_counts["tool"]
    IN  IF skill_type = "core"
        THEN IF core_count > 0 THEN RDiv(cwf, FromInt(core_count)) ELSE Zero
        ELSE IF RGe(job_years_experience, EXPERIENCE_THRESHOLD)
             THEN IF skill_count > 0
                  THEN RDiv(RMul(remaining_weight,
                                 role_factors(job_role_type, skill_type)),
                            FromInt(skill_count))
                  ELSE Zero
             ELSE IF other_count > 0
                  THEN RDiv(remaining_weight, FromInt(other_count))
                  ELSE Zero

skill_type_counts_of(skills) ==
    [t \in SkillType |->
        Cardinality({i \in DOMAIN skills : skills[i].skill_type = t})]

\* Faulty variant: the two multipliers exchanged.
requirement_multiplier_swapped(job_skill) ==
    IF job_skill.required THEN NICE_TO_HAVE_MULTIPLIER ELSE REQUIRED_MULTIPLIER

\* Faulty variant: required and nice-to-have requirements weighted alike.
requirement_multiplier_flat(job_skill) == NICE_TO_HAVE_MULTIPLIER

requirement_multiplier(job_skill) ==
    IF job_skill.required THEN REQUIRED_MULTIPLIER ELSE NICE_TO_HAVE_MULTIPLIER

unnormalized_weights(j) ==
    [i \in DOMAIN j.skills |->
        RMul(RMul(j.skills[i].weight,
                  calculate_weight_with_linear_core_decrease(
                      j.skills[i].skill_type, j.years_of_experience, j.role_type,
                      skill_type_counts_of(j.skills))),
             requirement_multiplier(j.skills[i]))]

\* Faulty variant: the zero-sum fallback forgotten, the unnormalized weights returned.
calculate_skill_weights_no_fallback(j) ==
    IF j.skills = <<>> THEN <<>>
    ELSE LET un == unnormalized_weights(j)
             total_unnormalized_weight == RSum(un)
         IN  IF total_unnormalized_weight = Zero
             THEN un
             ELSE [i \in DOMAIN j.skills |->
                      RMul(un[i], RDiv(One, total_unnormalized_weight))]

\* Faulty variant: the weights come back in reverse order of the requirements.
calculate_skill_weights_reversed(j) ==
    IF j.skills = <<>> THEN <<>>
    ELSE LET un == unnormalized_weights(j)
             total_unnormalized_weight == RSum(un)
             n == Len(j.skills)
         IN  IF total_unnormalized_weight = Zero
             THEN [i \in DOMAIN j.skills |-> RDiv(One, FromInt(n))]
             ELSE [i \in DOMAIN j.skills |->
                      RMul(un[n + 1 - i], RDiv(One, total_unnormalized_weight))]

calculate_skill_weights(j) ==
    IF j.skills = <<>> THEN <<>>
    ELSE LET un == unnormalized_weights(j)
             total_unnormalized_weight == RSum(un)
         IN  IF total_unnormalized_weight = Zero
             THEN [i \in DOMAIN j.skills |-> RDiv(One, FromInt(Len(j.skills)))]
             ELSE LET normalization_factor == RDiv(One, total_unnormalized_weight)
                  IN  [i \in DOMAIN j.skills |-> RMul(un[i], normalization_factor)]

----------------------------------------------------------------------------
(* models.py: the quality bands.                                           *)

\* Faulty variant: exclusive lower bounds, a boundary value drops to the lower band.
get_match_quality_exclusive(s) ==
    IF RGt(s, <<9, 10>>) THEN "Excellent"
    ELSE IF RGt(s, <<4, 5>>) THEN "Very Good"
    ELSE IF RGt(s, <<7, 10>>) THEN "Good"
    ELSE IF RGt(s, <<3, 5>>) THEN "Fair"
    ELSE IF RGt(s, <<2, 5>>) THEN "Poor"
    ELSE IF RGt(s, Zero) THEN "Very Poor"
    ELSE "No Match"

\* Faulty variant: the GOOD and FAIR labels swapped between the 0.7 and 0.6 tests.
get_match_quality_swapped(s) ==
    IF RGe(s, <<9, 10>>) THEN "Excellent"
    ELSE IF RGe(s, <<4, 5>>) THEN "Very Good"
    ELSE IF RGe(s, <<7, 10>>) THEN "Fair"
    ELSE IF RGe(s, <<3, 5>>) THEN "Good"
    ELSE IF RGe(s, <<2, 5>>) THEN "Poor"
    ELSE IF RGt(s, Zero) THEN "Very Poor"
    ELSE "No Match"

get_match_quality_from_score(s) ==
    IF RGe(s, <<9, 10>>) THEN "Excellent"
    ELSE IF RGe(s, <<4, 5>>) THEN "Very Good"
    ELSE IF RGe(s, <<7, 10>>) THEN "Good"
    ELSE IF RGe(s, <<3, 5>>) THEN "Fair"
    ELSE IF RGe(s, <<2, 5>>) THEN "Poor"
    ELSE IF RGt(s, Zero) THEN "Very Poor"
    ELSE "No Match"

----------------------------------------------------------------------------
(* embedding_manager.py: the embedding cache and the similarity query.     *)
(*                                                                         *)
(* The embedder is external: the vector of a text is the opaque value      *)
(* Embed(text).  The md5 text hash of an id is modelled by the text.  The  *)
(* collection is one Chroma collection in the code; its cached job entries *)
(* carry no candidate_name and never pass the query's where-filter, so the *)
(* model keeps the cache ids (store) apart from what a query over the      *)
(* candidate data answers (provider).                                      *)

Embed(text) == <<"vec", text>>

\* generate_embeddings(texts) re-raises whatever client.embeddings.create
\* raises; the calls that fail are an input of the run
embedder_fails(texts) == texts \in faults.embed

get_text(item) == item.description

generate_embedding_id(text, category, candidate_name) ==
    <<category, candidate_name, text>>

\* get_embedding: the cached vector, or <<>> for None.
get_embedding(text, category, candidate_name, st) ==
    IF generate_embedding_id(text, category, candidate_name) \in st
    THEN <<Embed(text)>> ELSE <<>>

RECURSIVE SelectIdx(_, _, _)
\* the indices i in from..Len(s), ascending, whose element is in the set keep
SelectIdx(n, from, keep) ==
    IF from > n THEN <<>>
    ELSE IF from \in keep THEN <<from>> \o SelectIdx(n, from + 1, keep)
    ELSE SelectIdx(n, from + 1, keep)

HasDuplicates(s) == \E i, j \in DOMAIN s : i < j /\ s[i] = s[j]

\* store_embeddings: every text is looked up again; the new ids go to the
\* collection in one add, which rejects a batch that repeats an id (the
\* exception is caught and printed, nothing is stored).
store_embeddings(texts, category, candidate_name, st) ==
    LET new == SelectIdx(Len(texts), 1,
                   {i \in DOMAIN texts :
                       get_embedding(texts[i], category, candidate_name, st) = <<>>})
        ids == [k \in DOMAIN new |->
                   generate_embedding_id(texts[new[k]], category, candidate_name)]
    IN  [lookups |-> Len(texts),
         hits |-> Len(texts) - Len(new),
         adds |-> IF ids = <<>> THEN <<>> ELSE <<ids>>,
         store |-> IF ids = <<>> \/ HasDuplicates(ids) THEN st
                   ELSE st \cup {ids[k] : k \in DOMAIN ids}]

\* lines 37-51: the cache is asked for every text; cached[i] is <<>> for a
\* miss, fetch_indices lists the misses in order
cache_check(texts, category, candidate_name, st) ==
    LET cached == [i \in DOMAIN texts |->
                      get_embedding(texts[i], category, candidate_name, st)]
    IN  [cached |-> cached,
         fetch_indices |-> SelectIdx(Len(texts), 1,
                                     {i \in DOMAIN texts : cached[i] = <<>>})]

\* Faulty variant: every text is sent to the embedder as soon as one misses.
texts_to_fetch_all(texts, fetch_indices) == texts

\* lines 56-68: the texts of the items that missed, in their order
texts_to_fetch_of(texts, fetch_indices) ==
    [k \in DOMAIN fetch_indices |-> texts[fetch_indices[k]]]

\* the embedder answers one vector per text, in order
generate_embeddings(texts) == [k \in DOMAIN texts |-> Embed(texts[k])]

\* lines 74-76: embeddings[fetch_indices[k]] = fetched_embeddings[k]
merge_fetched(cached, fetch_indices, fetched_embeddings) ==
    [i \in DOMAIN cached |->
        IF cached[i] # <<>> THEN cached[i][1]
        ELSE fetched_embeddings[CHOOSE k \in DOMAIN fetch_indices : fetch_indices[k] = i]]

\* get_embeddings_with_storage(items, category, candidate_name) on the store
\* st: its result and its effects.  api_calls_made is incremented before the
\* embedder is called, so a failed call counts; a failed call stores nothing.
get_embeddings_with_storage(items, category, candidate_name, st) ==
    LET texts == [i \in DOMAIN items |-> get_text(items[i])]
        checked == cache_check(texts, category, candidate_name, st)
        cached == checked.cached
        fetch_indices == checked.fetch_indices
        texts_to_fetch == texts_to_fetch_of(texts, fetch_indices)
        fetched_embeddings == generate_embeddings(texts_to_fetch)
        stored == store_embeddings(texts_to_fetch, category, candidate_name, st)
        fetch == fetch_indices # <<>>
        failed == fetch /\ embedder_fails(texts_to_fetch)
    IN  [ok |-> ~failed,
         embed_calls |-> IF fetch THEN <<texts_to_fetch>> ELSE <<>>,
         embeddings |-> merge_fetched(cached, fetch_indices, fetched_embeddings),
         adds |-> IF fetch /\ ~failed THEN stored.adds ELSE <<>>,
         api_calls |-> IF fetch THEN 1 ELSE 0,
         lookups |-> Len(items) + (IF fetch /\ ~failed THEN stored.lookups ELSE 0),
         hits |-> (Len(items) - Len(fetch_indices))
                  + (IF fetch /\ ~failed THEN stored.hits ELSE 0),
         store |-> IF fetch /\ ~failed THEN stored.store ELSE st]

\* collection.query may raise; query_candidate_data does not catch it.  The
\* queries that fail are an input of the run.
query_fails(query_embedding, candidate_name, category) ==
    <<candidate_name, category, query_embedding>> \in faults.query

\* query_candidate_data: the n_results nearest stored items of the candidate
\* in the category, nearest first; <<>> when none is stored.
query_candidate_data(query_embedding, candidate_name, category, n_results) ==
    LET key == <<candidate_name, category, query_embedding>>
    IN  IF key \in DOMAIN provider
        THEN SubSeq(provider[key], 1,
                    IF Len(provider[key]) < n_results THEN Len(provider[key])
                    ELSE n_results)
        ELSE <<>>

----------------------------------------------------------------------------
(* models.py: the result records.  Their pydantic field constraints        *)
(* (ge=0.0, le=1.0) are checked at construction only; a violation raises   *)
(* a ValidationError.                                                      *)

InUnit(x) == RGe(x, Zero) /\ RLe(x, One)

AttributeMatch(requirement, matched_item, similarity, proficiency_score, final_score, match_quality) ==
    [requirement |-> requirement, matched_item |-> matched_item,
     similarity |-> similarity, proficiency_score |-> proficiency_score,
     final_score |-> final_score, match_quality |-> match_quality]

AttributeMatchValid(m) == InUnit(m.similarity) /\ InUnit(m.final_score)

CategoryMatch(category, overall_score, matches) ==
    [category |-> category, overall_score |-> overall_score, matches |-> matches]

CategoryMatchValid(c) == InUnit(c.overall_score)

CandidateEvaluation(candidate_name, job_title, overall_score, results) ==
    [candidate_name |-> candidate_name, job_title |-> job_title,
     overall_score |-> overall_score, category_results |-> results]

CandidateEvaluationValid(e) == InUnit(e.overall_score)

Returned(v) == [ok |-> TRUE, value |-> v]
Raised(e) == [ok |-> FALSE, error |-> e]

----------------------------------------------------------------------------
(* matching_engine.py: match_category.                                     *)

\* skill_metadata.get("skill_score", 3) of a hit
skill_score_of(hit) == IF hit.skill_score = <<>> THEN 3 ELSE hit.skill_score[1]

\* semantic_similarity = max(0.0, 1 - best_distance)
similarity_of(best_distance) == RMax(Zero, RSub(One, best_distance))

\* Faulty variant: a requirement without a match is given the lowest non-empty band.
first_pass_unmatched_very_poor(requirement, results, category) ==
    IF results # <<>>
    THEN LET best == results[1]
             semantic_similarity == similarity_of(best.distance)
         IN  IF category = "skills"
             THEN AttributeMatch(requirement.description, <<best.document>>,
                                 semantic_similarity, <<skill_score_of(best)>>,
                                 Zero, "No Match")
             ELSE LET final_score == RMul(semantic_similarity, requirement.weight)
                  IN  AttributeMatch(requirement.description, <<best.document>>,
                                     semantic_similarity, <<>>, final_score,
                                     get_match_quality_from_score(final_score))
    ELSE AttributeMatch(requirement.description, <<>>, Zero, <<>>, Zero, "Very Poor")

\* Faulty variant: outside skills the band is read off the similarity, not the
\* final score.
first_pass_quality_of_similarity(requirement, results, category) ==
    IF results # <<>>
    THEN LET best == results[1]
             semantic_similarity == similarity_of(best.distance)
         IN  IF category = "skills"
             THEN AttributeMatch(requirement.description, <<best.document>>,
                                 semantic_similarity, <<skill_score_of(best)>>,
                                 Zero, "No Match")
             ELSE LET final_score == RMul(semantic_similarity, requirement.weight)
                  IN  AttributeMatch(requirement.description, <<best.document>>,
                                     semantic_similarity, <<>>, final_score,
                                     get_match_quality_from_score(semantic_similarity))
    ELSE AttributeMatch(requirement.description, <<>>, Zero, <<>>, Zero, "No Match")

\* Faulty variant: the farthest of the returned items taken as the match.
first_pass_last_hit(requirement, results, category) ==
    IF results # <<>>
    THEN LET best == results[Len(results)]
             semantic_similarity == similarity_of(best.distance)
         IN  IF category = "skills"
             THEN AttributeMatch(requirement.description, <<best.document>>,
                                 semantic_similarity, <<skill_score_of(best)>>,
                                 Zero, "No Match")
             ELSE LET final_score == RMul(semantic_similarity, requirement.weight)
                  IN  AttributeMatch(requirement.description, <<best.document>>,
                                     semantic_similarity, <<>>, final_score,
                                     get_match_quality_from_score(final_score))
    ELSE AttributeMatch(requirement.description, <<>>, Zero, <<>>, Zero, "No Match")

\* Faulty variant: a matched requirement recorded under the matched item's text.
first_pass_named_by_match(requirement, results, category) ==
    IF results # <<>>
    THEN LET best == results[1]
             semantic_similarity == similarity_of(best.distance)
         IN  IF category = "skills"
             THEN AttributeMatch(best.document, <<best.document>>,
                                 semantic_similarity, <<skill_score_of(best)>>,
                                 Zero, "No Match")
             ELSE LET final_score == RMul(semantic_similarity, requirement.weight)
                  IN  AttributeMatch(best.document, <<best.document>>,
                                     semantic_similarity, <<>>, final_score,
                                     get_match_quality_from_score(final_score))
    ELSE AttributeMatch(requirement.description, <<>>, Zero, <<>>, Zero, "No Match")

\* First pass (lines 49-105) for one requirement, given the query's results.
first_pass(requirement, results, category) ==
    IF results # <<>>
    THEN LET best == results[1]
             semantic_similarity == similarity_of(best.distance)
         IN  IF category = "skills"
             THEN AttributeMatch(requirement.description, <<best.document>>,
                                 semantic_similarity, <<skill_score_of(best)>>,
                                 Zero, "No Match")
             ELSE LET final_score == RMul(semantic_similarity, requirement.weight)
                  IN  AttributeMatch(requirement.description, <<best.document>>,
                                     semantic_similarity, <<>>, final_score,
                                     get_match_quality_from_score(final_score))
    ELSE AttributeMatch(requirement.description, <<>>, Zero, <<>>, Zero, "No Match")

\* Faulty variant: a requirement without a match left out of the average.
first_pass_scores_matched_only(m, category) ==
    IF m.matched_item # <<>>
    THEN IF category = "skills" THEN <<>> ELSE <<m.final_score>>
    ELSE <<>>

\* what the first pass appends to weighted_scores for one requirement
first_pass_scores(m, category) ==
    IF m.matched_item # <<>>
    THEN IF category = "skills" THEN <<>> ELSE <<m.final_score>>
    ELSE <<Zero>>

RECURSIVE Flatten(_)
Flatten(ss) == IF ss = <<>> THEN <<>> ELSE Head(ss) \o Flatten(Tail(ss))

\* Faulty variant: the job's weight of the requirement left out of the product.
weighted_score_unweighted(m, results, skill_weights, i) ==
    RMul(RDiv(FromInt(IF results # <<>> THEN skill_score_of(results[1]) ELSE 3),
              FromInt(5)),
         m.similarity)

\* Second pass for skills with a job (lines 108-136): the weighted score of
\* requirement i.
weighted_score(m, results, skill_weights, i) ==
    LET candidate_skill_score ==
            RDiv(FromInt(IF results # <<>> THEN skill_score_of(results[1]) ELSE 3),
                 FromInt(5))
        job_skill_weight == IF i <= Len(skill_weights) THEN skill_weights[i] ELSE Zero
    IN  RMul(RMul(candidate_skill_score, m.similarity), job_skill_weight)

\* Faulty variant: the skills score averaged over the requirements like the others.
skills_overall_score_averaged(scores) ==
    IF scores # <<>> THEN RDiv(RSum(scores), FromInt(Len(scores))) ELSE Zero

\* overall_score = min(1.0, total_weighted_score), the total being the sum of
\* the weighted scores of the matched requirements
skills_overall_score(scores) == RMin(One, RSum(scores))

\* sum(weighted_scores) / len(weighted_scores) if weighted_scores else 0.0
mean_overall_score(weighted_scores) ==
    IF weighted_scores # <<>>
    THEN RDiv(RSum(weighted_scores), FromInt(Len(weighted_scores)))
    ELSE Zero

\* the index of the first requirement whose AttributeMatch is rejected at
\* construction, 0 when none is
FirstInvalid(first) ==
    IF \E i \in DOMAIN first : ~AttributeMatchValid(first[i])
    THEN CHOOSE i \in DOMAIN first :
            /\ ~AttributeMatchValid(first[i])
            /\ \A h \in 1..(i - 1) : AttributeMatchValid(first[h])
    ELSE 0

\* Faulty variant: a failed query is swallowed, its requirement scored on whatever
\* the answer holds.
FirstQueryFailure_swallowed(job_embeddings, candidate_name, category) == 0

\* the index of the first requirement whose query raises, 0 when none does
FirstQueryFailure(job_embeddings, candidate_name, category) ==
    IF \E i \in DOMAIN job_embeddings :
          query_fails(job_embeddings[i], candidate_name, category)
    THEN CHOOSE i \in DOMAIN job_embeddings :
            /\ query_fails(job_embeddings[i], candidate_name, category)
            /\ \A h \in 1..(i - 1) :
                  ~query_fails(job_embeddings[h], candidate_name, category)
    ELSE 0

\* match_category(job_requirements, candidate_name, category, job) with the
\* embeddings of the requirements: what it returns or raises, and the queries
\* it made.  job is <<>> for None.
match_category_with(job_requirements, job_embeddings, candidate_name, category, j) ==
    LET cand_category == "candidate_" \o category
        results == [i \in DOMAIN job_requirements |->
                       query_candidate_data(job_embeddings[i], candidate_name,
                                            cand_category, 3)]
        first == [i \in DOMAIN job_requirements |->
                     first_pass(job_requirements[i], results[i], category)]
        invalid == FirstInvalid(first)
        qfail == FirstQueryFailure(job_embeddings, candidate_name, cand_category)
        \* the query of requirement i precedes the construction of its match
        query_error == qfail # 0 /\ (invalid = 0 \/ qfail <= invalid)
        bad == IF query_error THEN qfail ELSE invalid
        queried == IF bad = 0 THEN Len(job_requirements) ELSE bad
        queries == [i \in 1..queried |->
                       [query_embedding |-> job_embeddings[i],
                        candidate_name |-> candidate_name,
                        category |-> cand_category, n_results |-> 3]]
        skill_weights == calculate_skill_weights(j[1])
        ws == [i \in DOMAIN first |-> weighted_score(first[i], results[i], skill_weights, i)]
        matches == IF category = "skills" /\ j # <<>>
                   THEN [i \in DOMAIN first |->
                            IF first[i].matched_item # <<>>
                            THEN [first[i] EXCEPT
                                     !.final_score = ws[i],
                                     !.match_quality = get_match_quality_from_score(ws[i])]
                            ELSE first[i]]
                   ELSE first
        skill_scores == [i \in DOMAIN first |->
                            IF first[i].matched_item # <<>> THEN ws[i] ELSE Zero]
        weighted_scores == Flatten([i \in DOMAIN first |->
                                       first_pass_scores(first[i], category)])
        overall_score ==
            IF category = "skills" /\ j # <<>>
            THEN skills_overall_score(skill_scores)
            ELSE mean_overall_score(weighted_scores)
        result == CategoryMatch(category, overall_score, matches)
    IN  [queries |-> queries,
         \* line 110 is reached once the first pass is over
         weight_calls |-> IF category = "skills" /\ j # <<>> /\ bad = 0 THEN 1 ELSE 0,
         outcome |-> IF query_error THEN Raised("QueryError")
                     ELSE IF bad # 0 \/ ~CategoryMatchValid(result)
                     THEN Raised("ValidationError")
                     ELSE Returned(result)]

\* Faulty variant: an empty requirement list counted as a perfect match.
match_category_empty_is_perfect(job_requirements, candidate_name, category, j, st) ==
    IF job_requirements = <<>>
    THEN [outcome |-> Returned(CategoryMatch(category, One, <<>>)),
          queries |-> <<>>, embed_calls |-> <<>>, adds |-> <<>>, weight_calls |-> 0,
          api_calls |-> 0, lookups |-> 0, hits |-> 0, store |-> st]
    ELSE LET ge == get_embeddings_with_storage(job_requirements, "job_" \o category,
                                               "", st)
             mc == match_category_with(job_requirements, ge.embeddings,
                                       candidate_name, category, j)
         IN  [outcome |-> IF ge.ok THEN mc.outcome ELSE Raised("EmbeddingError"),
              queries |-> IF ge.ok THEN mc.queries ELSE <<>>,
              embed_calls |-> ge.embed_calls, adds |-> ge.adds,
              weight_calls |-> IF ge.ok THEN mc.weight_calls ELSE 0,
              api_calls |-> ge.api_calls, lookups |-> ge.lookups,
              hits |-> ge.hits, store |-> ge.store]

\* The whole call on the store st: outcome, queries and the cache's effects.
match_category(job_requirements, candidate_name, category, j, st) ==
    IF job_requirements = <<>>
    THEN [outcome |-> Returned(CategoryMatch(category, Zero, <<>>)),
          queries |-> <<>>, embed_calls |-> <<>>, adds |-> <<>>, weight_calls |-> 0,
          api_calls |-> 0, lookups |-> 0, hits |-> 0, store |-> st]
    ELSE LET ge == get_embeddings_with_storage(job_requirements, "job_" \o category,
                                               "", st)
             mc == match_category_with(job_requirements, ge.embeddings,
                                       candidate_name, category, j)
         IN  [outcome |-> IF ge.ok THEN mc.outcome ELSE Raised("EmbeddingError"),
              queries |-> IF ge.ok THEN mc.queries ELSE <<>>,
              embed_calls |-> ge.embed_calls, adds |-> ge.adds,
              weight_calls |-> IF ge.ok THEN mc.weight_calls ELSE 0,
              api_calls |-> ge.api_calls, lookups |-> ge.lookups,
              hits |-> ge.hits, store |-> ge.store]

----------------------------------------------------------------------------
(* candidate_processor.py: evaluate_candidate and evaluate_candidates.     *)

\* Faulty variant: the categories walked in alphabetical order.
CategoriesAlphabetical == <<"certifications", "education", "experience", "skills">>

\* the insertion order of the categories dict of evaluate_candidate
Categories == <<"skills", "experience", "education", "certifications">>

Job(title, role_type, years_of_experience, skills, experience, education, certifications) ==
    [title |-> title, role_type |-> role_type,
     years_of_experience |-> years_of_experience, skills |-> skills,
     experience |-> experience, education |-> education,
     certifications |-> certifications]

\* Faulty variant: the mean taken over all four categories, absent ones counting 0.
overall_score_over_all_categories(results) ==
    RDiv(RSum([i \in DOMAIN results |-> results[i].overall_score]), FromInt(4))

\* sum(result.overall_score ...) / len(category_results), 0.0 for no results
overall_score_of(results) ==
    IF results # <<>>
    THEN RDiv(RSum([i \in DOMAIN results |-> results[i].overall_score]),
              FromInt(Len(results)))
    ELSE Zero

RECURSIVE InsertByScore(_, _)
\* e placed behind every element whose overall_score is >= its own
InsertByScore(sorted, e) ==
    IF sorted = <<>> THEN <<e>>
    ELSE IF RGe(Head(sorted).overall_score, e.overall_score)
         THEN <<Head(sorted)>> \o InsertByScore(Tail(sorted), e)
         ELSE <<e>> \o sorted

\* Faulty variant of InsertByScore: e placed before the elements of equal score.
RECURSIVE InsertBeforeEqual(_, _)
InsertBeforeEqual(sorted, e) ==
    IF sorted = <<>> THEN <<e>>
    ELSE IF RGt(Head(sorted).overall_score, e.overall_score)
         THEN <<Head(sorted)>> \o InsertBeforeEqual(Tail(sorted), e)
         ELSE <<e>> \o sorted

RECURSIVE SortFromUnstable(_, _)
SortFromUnstable(sorted, rest) ==
    IF rest = <<>> THEN sorted
    ELSE SortFromUnstable(InsertBeforeEqual(sorted, Head(rest)), Tail(rest))

\* Faulty variant: a descending sort that reverses the input order of equal scores
\* (an ascending stable sort, reversed).
sort_by_overall_score_unstable(evals) == SortFromUnstable(<<>>, evals)

RECURSIVE SortFrom(_, _)
SortFrom(sorted, rest) ==
    IF rest = <<>> THEN sorted
    ELSE SortFrom(InsertByScore(sorted, Head(rest)), Tail(rest))

\* evaluations.sort(key=lambda x: x.overall_score, reverse=True): Python's
\* sort is stable, also with reverse=True.
sort_by_overall_score(evals) == SortFrom(<<>>, evals)

----------------------------------------------------------------------------
(* The read accessors: CandidateEvaluation.get_category_score (models.py)  *)
(* and CandidateProcessor.get_top_matches_by_category.                     *)

\* the index of the first result of the category, 0 when there is none: both
\* accessors walk category_results and return at the first hit
first_result_of(results, category) ==
    IF \E k \in DOMAIN results : results[k].category = category
    THEN CHOOSE k \in DOMAIN results :
            /\ results[k].category = category
            /\ \A h \in 1..(k - 1) : results[h].category # category
    ELSE 0

\* Faulty variant: the last result of the category is the one returned.
get_category_score_last(evaluation, category) ==
    LET results == evaluation.category_results
    IN  IF \E k \in DOMAIN results : results[k].category = category
        THEN results[CHOOSE k \in DOMAIN results :
                        /\ results[k].category = category
                        /\ \A h \in (k + 1)..Len(results) :
                              results[h].category # category].overall_score
        ELSE Zero

get_category_score(evaluation, category) ==
    LET k == first_result_of(evaluation.category_results, category)
    IN  IF k = 0 THEN Zero ELSE evaluation.category_results[k].overall_score

RECURSIVE InsertByFinalScore(_, _)
\* m placed behind every match whose final_score is >= its own
InsertByFinalScore(sorted, m) ==
    IF sorted = <<>> THEN <<m>>
    ELSE IF RGe(Head(sorted).final_score, m.final_score)
         THEN <<Head(sorted)>> \o InsertByFinalScore(Tail(sorted), m)
         ELSE <<m>> \o sorted

RECURSIVE SortMatchesFrom(_, _)
SortMatchesFrom(sorted, rest) ==
    IF rest = <<>> THEN sorted
    ELSE SortMatchesFrom(InsertByFinalScore(sorted, Head(rest)), Tail(rest))

\* sorted(matches, key=lambda x: x.final_score, reverse=True), a stable sort
sorted_matches(matches) == SortMatchesFrom(<<>>, matches)

\* s[:n] for n >= 0
Take(s, n) == SubSeq(s, 1, IF n < Len(s) THEN n ELSE Len(s))

\* round(x, 4) for x >= 0, a tie going to the even digit
round4(x) ==
    LET scaled == x[1] * 10000
        q == scaled \div x[2]
        rem == scaled % x[2]
    IN  R(IF 2 * rem > x[2] \/ (2 * rem = x[2] /\ q % 2 = 1) THEN q + 1 ELSE q, 10000)

\* the dict built for one match
match_summary(m) ==
    [requirement |-> m.requirement, matched_item |-> m.matched_item,
     score |-> round4(m.final_score), quality |-> m.match_quality]

\* the slice [:top_n] is taken from the sorted list first, the matches
\* without a matched_item are dropped from the slice afterwards
get_top_matches_by_category(evaluation, category, top_n) ==
    LET results == evaluation.category_results
        k == first_result_of(results, category)
    IN  IF k = 0 THEN <<>>
        ELSE LET kept == SelectSeq(Take(sorted_matches(results[k].matches), top_n),
                                   LAMBDA m : m.matched_item # <<>>)
             IN  [i \in DOMAIN kept |-> match_summary(kept[i])]

----------------------------------------------------------------------------
(* Inputs.                                                                 *)

SeqsUpTo(S, n) == UNION {[1..k -> S] : k \in 0..n}

Half == <<1, 2>>
Two == <<2, 1>>

Description(category, i) == category \o "_" \o ToString(i)

\* requirement lists: attrs[i] = <<weight, skill_type, required>>
Requirements(category, attrs) ==
    [i \in DOMAIN attrs |->
        JobRequirement(Description(category, i), attrs[i][1], attrs[i][2], attrs[i][3])]

NoJob == Job("none", "technical", Zero, <<>>, <<>>, <<>>, <<>>)

Fresh ==
    /\ store = {}
    /\ api_calls_made = 0
    /\ cache_hits = 0
    /\ lookups = 0
    /\ query_log = <<>>
    /\ weights = <<>>
    /\ quality = <<>>
    /\ category_match = <<>>
    /\ ci = 1
    /\ ki = 1
    /\ category_results = <<>>
    /\ evaluations = <<>>
    /\ match_calls = <<>>
    /\ raised = <<>>
    /\ embed_log = <<>>
    /\ accessor_result = <<>>
    /\ weight_computations = 0
    /\ add_log = <<>>
    /\ calls = <<>>

NoFaults == [embed |-> {}, query |-> {}]

NoAccessor == [category |-> "", top_n |-> 0]

NoMatchArgs == [job_requirements |-> <<>>, candidate_name |-> "", category |-> "",
                job |-> <<>>]

----------------------------------------------------------------------------
(* Job.calculate_skill_weights on every job of the bounded family.         *)

YearsW == {Zero, <<5, 2>>, <<5, 1>>, <<7, 1>>}
SkillAttrsW == {Zero, Half, One, Two} \X SkillType \X BOOLEAN

InitWeights ==
    /\ faults = NoFaults
    /\ accessor = NoAccessor
    /\ \E attrs \in SeqsUpTo(SkillAttrsW, MaxSkills), y \in YearsW, r \in RoleType :
          job = Job("job", r, y, Requirements("skills", attrs), <<>>, <<>>, <<>>)
    /\ score = Zero
    /\ margs = NoMatchArgs
    /\ names = <<>>
    /\ provider = <<>>
    /\ pc = "calculate_skill_weights"
    /\ Fresh

CalculateSkillWeights ==
    /\ weight_computations' = weight_computations + 1
    /\ UNCHANGED <<add_log, calls>>
    /\ UNCHANGED <<faults, raised, embed_log, accessor, accessor_result>>
    /\ pc = "calculate_skill_weights"
    /\ weights' = calculate_skill_weights(job)
    /\ pc' = "done"
    /\ UNCHANGED <<job, score, margs, names, provider, store, api_calls_made,
                   cache_hits, lookups, query_log, quality, category_match, ci, ki,
                   category_results, evaluations, match_calls>>

SpecWeights == InitWeights /\ [][CalculateSkillWeights]_vars

----------------------------------------------------------------------------
(* AttributeMatch.get_match_quality_from_score on a grid of [0,1].         *)

ScoreGrid == {R(k, ScoreSteps) : k \in 0..ScoreSteps}

InitQuality ==
    /\ faults = NoFaults
    /\ accessor = NoAccessor
    /\ score \in ScoreGrid
    /\ job = NoJob
    /\ margs = NoMatchArgs
    /\ names = <<>>
    /\ provider = <<>>
    /\ pc = "get_match_quality_from_score"
    /\ Fresh

GetMatchQuality ==
    /\ UNCHANGED <<weight_computations, add_log, calls>>
    /\ UNCHANGED <<faults, raised, embed_log, accessor, accessor_result>>
    /\ pc = "get_match_quality_from_score"
    /\ quality' = <<get_match_quality_from_score(score)>>
    /\ pc' = "done"
    /\ UNCHANGED <<job, score, margs, names, provider, store, api_calls_made,
                   cache_hits, lookups, query_log, weights, category_match, ci, ki,
                   category_results, evaluations, match_calls>>

SpecQuality == InitQuality /\ [][GetMatchQuality]_vars

----------------------------------------------------------------------------
(* MatchingEngine.match_category called directly, on every requirement     *)
(* list, job argument and set of query answers of the bounded family.      *)

Hit(document, distance, skill_score) ==
    [document |-> document, distance |-> distance, skill_score |-> skill_score]

\* what one query may answer: nothing; an exact match of a top-rated skill; a
\* near match without skill_score metadata, followed by a farther one; a
\* half-way match of a zero-rated skill; an item farther than distance 1
SkillResponses ==
    {<<>>,
     <<Hit("python", Zero, <<5>>)>>,
     <<Hit("sql", <<1, 20>>, <<>>), Hit("python", Half, <<5>>)>>,
     <<Hit("excel", Half, <<0>>)>>,
     <<Hit("cobol", <<3, 2>>, <<4>>)>>}

\* outside the skills category skill_score is not read
Responses(category) ==
    IF category = "skills" THEN SkillResponses
    ELSE SkillResponses \ {<<Hit("excel", Half, <<0>>)>>}

QueryKey(candidate_name, category, requirement) ==
    <<candidate_name, "candidate_" \o category, Embed(get_text(requirement))>>

\* the query answers resp[i] for requirement i of the candidate's category
ProviderOf(candidate_name, category, reqs, resp) ==
    [k \in {QueryKey(candidate_name, category, reqs[i]) : i \in DOMAIN reqs} |->
        resp[CHOOSE i \in DOMAIN reqs : QueryKey(candidate_name, category, reqs[i]) = k]]

SkillAttrsM == {<<One, "core", TRUE>>, <<Half, "soft", FALSE>>, <<One, "tool", TRUE>>,
                <<Two, "tool", FALSE>>}
OtherAttrsM == {<<w, "core", TRUE>> : w \in {Half, One, Two}}

\* the job argument: None, a job holding the requirements (outside skills: a
\* junior technical one without skills, a senior leadership one with a
\* skill), or (skills only) a job whose skills list is not the list passed in
JobChoices(category, reqs) ==
    IF category = "skills"
    THEN {<<>>, <<Job("job", "technical", Zero, <<>>, <<>>, <<>>, <<>>)>>}
         \cup {<<Job("job", yr[2], yr[1], reqs, <<>>, <<>>, <<>>)>> :
                  yr \in {<<Zero, "technical">>, <<<<5, 1>>, "leadership">>}}
    ELSE {<<>>,
          <<[Job("job", "technical", Zero, <<>>, <<>>, <<>>, <<>>)
                EXCEPT ![category] = reqs]>>,
          <<[Job("job", "leadership", <<7, 1>>,
                 Requirements("skills", <<<<Two, "tool", TRUE>>>>), <<>>, <<>>, <<>>)
                EXCEPT ![category] = reqs]>>}

InitMatch ==
    /\ faults = NoFaults
    /\ accessor = NoAccessor
    /\ \E c \in {Categories[k] : k \in DOMAIN Categories} :
       \E attrs \in SeqsUpTo(IF c = "skills" THEN SkillAttrsM ELSE OtherAttrsM, MaxReqs) :
       \E j \in JobChoices(c, Requirements(c, attrs)) :
       \E resp \in [DOMAIN attrs -> Responses(c)] :
          /\ margs = [job_requirements |-> Requirements(c, attrs),
                      candidate_name |-> "alice", category |-> c, job |-> j]
          /\ job = IF j = <<>> THEN NoJob ELSE j[1]
          /\ provider = ProviderOf("alice", c, Requirements(c, attrs), resp)
    /\ score = Zero
    /\ names = <<>>
    /\ pc = "match_category"
    /\ Fresh

MatchCategory ==
    /\ pc = "match_category"
    /\ \E r \in {match_category(margs.job_requirements, margs.candidate_name,
                               margs.category, margs.job, store)} :
           /\ category_match' = <<r.outcome>>
           /\ store' = r.store
           /\ api_calls_made' = api_calls_made + r.api_calls
           /\ cache_hits' = cache_hits + r.hits
           /\ lookups' = lookups + r.lookups
           /\ query_log' = query_log \o r.queries
           /\ embed_log' = embed_log \o r.embed_calls
           /\ add_log' = add_log \o r.adds
           /\ weight_computations' = weight_computations + r.weight_calls
           /\ raised' = IF r.outcome.ok THEN raised ELSE <<r.outcome.error>>
           /\ pc' = IF r.outcome.ok THEN "done" ELSE "raised"
    /\ UNCHANGED <<faults, accessor, accessor_result, calls>>
    /\ UNCHANGED <<job, score, margs, names, provider, weights, quality, ci, ki,
                   category_results, evaluations, match_calls>>

SpecMatch == InitMatch /\ [][MatchCategory]_vars

----------------------------------------------------------------------------
(* CandidateProcessor.evaluate_candidates over a list of candidates, with  *)
(* a matching engine configured.  evaluate_candidate runs inside it, one   *)
(* category at a time.                                                     *)

\* The candidates whose data the store holds: alice and dan match every
\* requirement exactly with top-rated skills, bob has skills and education
\* only, at distance 1/2 and without skill_score metadata; carol has no data.
Candidates == {"alice", "bob", "carol", "dan"}

SkillsE == Requirements("skills", <<<<One, "core", TRUE>>, <<One, "tool", TRUE>>>>)
ExperienceE == Requirements("experience", <<<<One, "core", TRUE>>>>)
EducationE == Requirements("education", <<<<Half, "core", TRUE>>, <<One, "core", TRUE>>>>)
CertificationsE == Requirements("certifications", <<<<Half, "core", TRUE>>>>)
\* a base weight above 1
CertificationsHeavy == Requirements("certifications", <<<<Two, "core", TRUE>>>>)

JobsE ==
    {Job("job", "technical", Zero, sk, ex, ed, ce) :
        sk \in {<<>>, SkillsE}, ex \in {<<>>, ExperienceE}, ed \in {<<>>, EducationE},
        ce \in {<<>>, CertificationsE, CertificationsHeavy}}

AllRequirementsE ==
    {<<"skills", SkillsE[1]>>, <<"skills", SkillsE[2]>>,
     <<"experience", ExperienceE[1]>>,
     <<"education", EducationE[1]>>, <<"education", EducationE[2]>>,
     <<"certifications", CertificationsE[1]>>}

ProviderE ==
    LET strong == <<Hit("item", Zero, <<5>>)>>
        weak == <<Hit("item", Half, <<>>)>>
        keys(c, cats) == {QueryKey(c, cr[1], cr[2]) :
                             cr \in {x \in AllRequirementsE : x[1] \in cats}}
        all == {"skills", "experience", "education", "certifications"}
    IN  [k \in keys("alice", all) \cup keys("dan", all)
               \cup keys("bob", {"skills", "education"}) |->
            IF k[1] = "bob" THEN weak ELSE strong]

Init ==
    /\ faults = NoFaults
    /\ accessor = NoAccessor
    /\ job \in JobsE
    /\ names \in SeqsUpTo(Candidates, MaxCandidates)
    /\ provider = ProviderE
    /\ score = Zero
    /\ margs = NoMatchArgs
    /\ pc = "evaluate_candidates"
    /\ Fresh

\* evaluate_candidates, lines 115-116: the next candidate is handed to
\* evaluate_candidate (lines 73-85).
EvaluateCandidateBegin ==
    /\ UNCHANGED <<weight_computations, add_log, calls>>
    /\ UNCHANGED <<faults, raised, embed_log, accessor, accessor_result>>
    /\ pc = "evaluate_candidates"
    /\ ci <= Len(names)
    /\ category_results' = <<>>
    /\ match_calls' = <<>>
    /\ ki' = 1
    /\ pc' = "evaluate_candidate"
    /\ UNCHANGED <<job, score, margs, names, provider, store, api_calls_made,
                   cache_hits, lookups, query_log, weights, quality,
                   category_match, ci, evaluations>>

\* evaluate_candidate, lines 87-95: one turn of the loop over the categories.
EvaluateCandidateCategory ==
    /\ pc = "evaluate_candidate"
    /\ ki <= Len(Categories)
    /\ LET category == Categories[ki]
           requirements == job[category]
       IN  IF requirements # <<>>
           THEN \E r \in {match_category(requirements, names[ci], category,
                                         <<job>>, store)} :
                   /\ match_calls' = Append(match_calls, category)
                   /\ store' = r.store
                   /\ api_calls_made' = api_calls_made + r.api_calls
                   /\ cache_hits' = cache_hits + r.hits
                   /\ lookups' = lookups + r.lookups
                   /\ query_log' = query_log \o r.queries
                   /\ embed_log' = embed_log \o r.embed_calls
                   /\ add_log' = add_log \o r.adds
                   /\ weight_computations' = weight_computations + r.weight_calls
                   /\ IF r.outcome.ok
                      THEN /\ category_results' = Append(category_results, r.outcome.value)
                           /\ ki' = ki + 1
                           /\ pc' = pc
                           /\ UNCHANGED raised
                      ELSE /\ pc' = "raised"
                           /\ raised' = <<r.outcome.error>>
                           /\ UNCHANGED <<category_results, ki>>
           ELSE /\ ki' = ki + 1
                /\ UNCHANGED <<match_calls, store, api_calls_made, cache_hits, lookups,
                               query_log, category_results, pc, raised, embed_log,
                               add_log, weight_computations>>
    /\ UNCHANGED <<faults, accessor, accessor_result, calls>>
    /\ UNCHANGED <<job, score, margs, names, provider, weights, quality,
                   category_match, ci, evaluations>>

\* evaluate_candidate, lines 97-109, and the append of line 117.
EvaluateCandidateReturn ==
    /\ UNCHANGED <<weight_computations, add_log, calls>>
    /\ pc = "evaluate_candidate"
    /\ ki > Len(Categories)
    /\ LET evaluation == CandidateEvaluation(names[ci], job.title,
                                             overall_score_of(category_results),
                                             category_results)
       IN  IF CandidateEvaluationValid(evaluation)
           THEN /\ evaluations' = Append(evaluations, evaluation)
                /\ ci' = ci + 1
                /\ pc' = "evaluate_candidates"
                /\ UNCHANGED raised
           ELSE /\ pc' = "raised"
                /\ raised' = <<"ValidationError">>
                /\ UNCHANGED <<evaluations, ci>>
    /\ UNCHANGED <<faults, embed_log, accessor, accessor_result>>
    /\ UNCHANGED <<job, score, margs, names, provider, store, api_calls_made,
                   cache_hits, lookups, query_log, weights, quality,
                   category_match, ki, category_results, match_calls>>

\* evaluate_candidates, lines 119-122: the loop is over, sort and return.
EvaluateCandidatesReturn ==
    /\ UNCHANGED <<weight_computations, add_log, calls>>
    /\ UNCHANGED <<faults, raised, embed_log, accessor, accessor_result>>
    /\ pc = "evaluate_candidates"
    /\ ci > Len(names)
    /\ evaluations' = sort_by_overall_score(evaluations)
    /\ pc' = "done"
    /\ UNCHANGED <<job, score, margs, names, provider, store, api_calls_made,
                   cache_hits, lookups, query_log, weights, quality,
                   category_match, ci, ki, category_results, match_calls>>

Next ==
    \/ EvaluateCandidateBegin
    \/ EvaluateCandidateCategory
    \/ EvaluateCandidateReturn
    \/ EvaluateCandidatesReturn

Spec == Init /\ [][Next]_vars

----------------------------------------------------------------------------
(* Claims about the weight calculation (SpecWeights).                      *)

Tolerance == <<1, 1000000>>

RAbs(a) == <<Abs(a[1]), a[2]>>

\* C1: for every job with at least one skills requirement and any
\* years_of_experience >= 0, the weights returned by calculate_skill_weights
\* sum to 1.0 within 1e-6.
C1_WeightsSumToOne ==
    (pc = "done" /\ job.skills # <<>>)
        => RLe(RAbs(RSub(RSum(weights), One)), Tolerance)

\* two requirements of different kinds and required flags, weighted unequally
C1_Witness ==
    /\ pc = "done"
    /\ Len(job.skills) = 2
    /\ job.skills[1].skill_type # job.skills[2].skill_type
    /\ job.skills[1].required # job.skills[2].required
    /\ weights[1] # weights[2]
    /\ RSum(weights) = One

\* C2: calculate_skill_weights returns one weight per skills requirement, the
\* weight at index i being the one of requirement i (in proportion to its
\* unnormalized weight base x type x multiplier, or 1/n each when these sum
\* to 0), and the empty sequence for a job with no skills requirement.
C2_WeightsAligned ==
    pc = "done" =>
        /\ Len(weights) = Len(job.skills)
        /\ job.skills = <<>> => weights = <<>>
        /\ LET un == unnormalized_weights(job)
           IN  IF RSum(un) = Zero
               THEN \A i \in DOMAIN weights :
                        weights[i] = RDiv(One, FromInt(Len(job.skills)))
               ELSE \A i \in DOMAIN weights :
                        RMul(weights[i], RSum(un)) = un[i]

\* two requirements with different unnormalized weights, weighted in order
C2_Witness ==
    /\ pc = "done"
    /\ Len(job.skills) = 2
    /\ RLt(unnormalized_weights(job)[1], unnormalized_weights(job)[2])
    /\ RLt(weights[1], weights[2])

----------------------------------------------------------------------------
(* Claims about the quality bands (SpecQuality).                           *)

BandRank(q) ==
    CASE q = "No Match" -> 0
      [] q = "Very Poor" -> 1
      [] q = "Poor" -> 2
      [] q = "Fair" -> 3
      [] q = "Good" -> 4
      [] q = "Very Good" -> 5
      [] q = "Excellent" -> 6

\* C4: get_match_quality_from_score is total on [0,1] with inclusive lower
\* bounds: >= 0.9 EXCELLENT, >= 0.8 VERY_GOOD, >= 0.7 GOOD, >= 0.6 FAIR,
\* >= 0.4 POOR, > 0 VERY_POOR, exactly 0 NO_MATCH; a boundary value falls in
\* the higher band.
C4_QualityBands ==
    pc = "done" =>
        /\ Len(quality) = 1
        /\ quality[1] \in MatchQuality
        /\ (quality[1] = "Excellent") <=> RGe(score, <<9, 10>>)
        /\ (quality[1] = "Very Good") <=> (RGe(score, <<8, 10>>) /\ RLt(score, <<9, 10>>))
        /\ (quality[1] = "Good") <=> (RGe(score, <<7, 10>>) /\ RLt(score, <<8, 10>>))
        /\ (quality[1] = "Fair") <=> (RGe(score, <<6, 10>>) /\ RLt(score, <<7, 10>>))
        /\ (quality[1] = "Poor") <=> (RGe(score, <<4, 10>>) /\ RLt(score, <<6, 10>>))
        /\ (quality[1] = "Very Poor") <=> (RGt(score, Zero) /\ RLt(score, <<4, 10>>))
        /\ (quality[1] = "No Match") <=> (score = Zero)

\* the boundary 0.9 classified
C4_Witness == pc = "done" /\ score = <<9, 10>> /\ quality = <<"Excellent">>

\* C5: for all scores s1 <= s2 in [0,1], the band of s1 is not higher than
\* the band of s2 (NO_MATCH < VERY_POOR < POOR < FAIR < GOOD < VERY_GOOD <
\* EXCELLENT).
C5_QualityMonotonic ==
    pc = "done" =>
        \A s2 \in ScoreGrid :
            RLe(score, s2) =>
                BandRank(quality[1]) <= BandRank(get_match_quality_from_score(s2))

\* a score in the middle band classified, with higher bands above it
C5_Witness ==
    /\ pc = "done"
    /\ score = <<3, 5>>
    /\ quality = <<"Fair">>
    /\ \E s2 \in ScoreGrid : BandRank(get_match_quality_from_score(s2)) > 3

----------------------------------------------------------------------------
(* Claims about match_category (SpecMatch).                                *)

MatchReturned == pc = "done" /\ category_match[1].ok
MatchResult == category_match[1].value

\* the answers of the provider to the queries of the call
AnswerTo(i) ==
    query_candidate_data(Embed(margs.job_requirements[i].description),
                         margs.candidate_name, "candidate_" \o margs.category, 3)

\* C6: for the skills category with a job supplied, match_category returns
\* overall_score = min(1.0, sum of the per-requirement final scores), a sum and
\* not an average, and the value lies in [0,1] for any answers with distance
\* >= 0 and proficiency in 0..5.
C6_SkillsOverallIsClampedSum ==
    (pc # "match_category" /\ margs.category = "skills" /\ margs.job # <<>>
        /\ margs.job_requirements # <<>>)
        => /\ MatchReturned
           /\ MatchResult.overall_score =
                  RMin(One, RSum([i \in DOMAIN MatchResult.matches |->
                                     MatchResult.matches[i].final_score]))
           /\ RGe(MatchResult.overall_score, Zero)
           /\ RLe(MatchResult.overall_score, One)

\* two skills matched with a positive score each: the sum is not the average
C6_Witness ==
    /\ MatchReturned
    /\ margs.category = "skills"
    /\ margs.job # <<>>
    /\ Len(MatchResult.matches) = 2
    /\ \A i \in 1..2 : RGt(MatchResult.matches[i].final_score, Zero)
    /\ MatchResult.overall_score =
           RAdd(MatchResult.matches[1].final_score, MatchResult.matches[2].final_score)

\* C7: if the similarity query returns no documents for every requirement of
\* a category (skills or not), match_category returns overall_score 0 and one
\* match per requirement, each with matched_item None, similarity 0,
\* final_score 0 and match_quality NO_MATCH.
C7_NoMatchPropagates ==
    (pc # "match_category" /\ margs.job_requirements # <<>>
        /\ \A i \in DOMAIN margs.job_requirements : AnswerTo(i) = <<>>)
        => /\ MatchReturned
           /\ MatchResult.overall_score = Zero
           /\ Len(MatchResult.matches) = Len(margs.job_requirements)
           /\ \A i \in DOMAIN MatchResult.matches :
                 /\ MatchResult.matches[i].matched_item = <<>>
                 /\ MatchResult.matches[i].similarity = Zero
                 /\ MatchResult.matches[i].final_score = Zero
                 /\ MatchResult.matches[i].match_quality = "No Match"

\* two skills requirements of a job, neither answered
C7_Witness ==
    /\ MatchReturned
    /\ margs.category = "skills"
    /\ margs.job # <<>>
    /\ Len(margs.job_requirements) = 2
    /\ \A i \in 1..2 : AnswerTo(i) = <<>>
    /\ Len(query_log) = 2
    /\ MatchResult.overall_score = Zero

\* C8: match_category with an empty requirement list returns a CategoryMatch
\* with overall_score 0 and no matches, without calling the embedder, the
\* cache or the similarity query.
C8_EmptyRequirements ==
    (pc # "match_category" /\ margs.job_requirements = <<>>)
        => /\ MatchReturned
           /\ MatchResult = [category |-> margs.category, overall_score |-> Zero,
                             matches |-> <<>>]
           /\ api_calls_made = 0
           /\ lookups = 0
           /\ cache_hits = 0
           /\ store = {}
           /\ query_log = <<>>

C8_Witness ==
    /\ pc = "done"
    /\ margs.job_requirements = <<>>
    /\ margs.category = "experience"
    /\ category_match[1].ok
    /\ category_match[1].value.matches = <<>>

----------------------------------------------------------------------------
(* Claims about evaluate_candidate and evaluate_candidates (Spec).         *)

Injections(n) == {p \in [1..n -> 1..n] : \A a, b \in 1..n : a # b => p[a] # p[b]}

\* C3: evaluate_candidates returns exactly one evaluation per input candidate
\* id, ordered by overall_score descending, and candidates with equal
\* overall_score keep their relative order of the input list.
C3_RankingSortedAndStable ==
    pc = "done" =>
        /\ Len(evaluations) = Len(names)
        /\ \E p \in Injections(Len(names)) :
              /\ \A i \in DOMAIN evaluations :
                    evaluations[i].candidate_name = names[p[i]]
              /\ \A i, k \in DOMAIN evaluations :
                    (i < k /\ evaluations[i].overall_score = evaluations[k].overall_score
                       /\ evaluations[i].candidate_name # evaluations[k].candidate_name)
                        => p[i] < p[k]
        /\ \A i, k \in DOMAIN evaluations :
              i < k => RGe(evaluations[i].overall_score, evaluations[k].overall_score)

\* three candidates: the first of the input ranked last, behind two different
\* candidates of equal score who keep their input order
C3_Witness ==
    /\ pc = "done"
    /\ Len(evaluations) = 3
    /\ names[1] = evaluations[3].candidate_name
    /\ names[2] = evaluations[1].candidate_name
    /\ names[3] = evaluations[2].candidate_name
    /\ names[2] # names[3]
    /\ evaluations[1].overall_score = evaluations[2].overall_score
    /\ RGt(evaluations[2].overall_score, evaluations[3].overall_score)

\* the categories of the job that hold at least one requirement, in the order
\* skills, experience, education, certifications
PresentCategories ==
    SelectSeq(<<"skills", "experience", "education", "certifications">>,
              LAMBDA c : job[c] # <<>>)

\* C9: the overall_score of an evaluation returned by evaluate_candidate is
\* the arithmetic mean of the overall_score of exactly the categories that
\* have at least one requirement in the job (absent categories are no zeros
\* of the mean); it is 0, with no category results, for a job without
\* requirements.
C9_OverallIsMeanOfPresent ==
    \A i \in DOMAIN evaluations :
        LET e == evaluations[i]
            n == Len(PresentCategories)
        IN  /\ Len(e.category_results) = n
            /\ \A k \in 1..n : e.category_results[k].category \in
                                  {PresentCategories[h] : h \in 1..n}
            /\ n = 0 => (e.overall_score = Zero /\ e.category_results = <<>>)
            /\ n > 0 => RMul(e.overall_score, FromInt(n)) =
                           RSum([k \in 1..n |-> e.category_results[k].overall_score])

\* an evaluation over two present categories of different scores
C9_Witness ==
    \E i \in DOMAIN evaluations :
        /\ Len(evaluations[i].category_results) = 2
        /\ Len(PresentCategories) = 2
        /\ RGt(evaluations[i].category_results[1].overall_score,
               evaluations[i].category_results[2].overall_score)
        /\ RGt(evaluations[i].category_results[2].overall_score, Zero)
        /\ RLt(evaluations[i].overall_score,
               evaluations[i].category_results[1].overall_score)

\* C10: evaluate_candidate invokes match_category exactly once for each
\* category of the job with at least one requirement, never for an empty one,
\* and category_results lists the results in the order skills, experience,
\* education, certifications.
C10_OneMatchPerPresentCategory ==
    /\ (pc = "evaluate_candidate" /\ ki > 4) =>
          /\ match_calls = PresentCategories
          /\ [k \in DOMAIN category_results |-> category_results[k].category]
                = PresentCategories
    /\ pc = "evaluate_candidate" =>
          \A a, b \in DOMAIN match_calls : a # b => match_calls[a] # match_calls[b]
    /\ \A i \in DOMAIN evaluations :
          [k \in DOMAIN evaluations[i].category_results |->
              evaluations[i].category_results[k].category] = PresentCategories

\* a job with skills, education and certifications but no experience,
\* evaluated: three calls, in order
C10_Witness ==
    /\ pc = "evaluate_candidate"
    /\ ki > 4
    /\ job.experience = <<>>
    /\ match_calls = <<"skills", "education", "certifications">>
    /\ Len(category_results) = 3

----------------------------------------------------------------------------
(* Claims about the error paths of match_category (SpecMatch).             *)

SkillsWithoutJob ==
    /\ pc # "match_category"
    /\ margs.category = "skills"
    /\ margs.job_requirements # <<>>
    /\ margs.job = <<>>

\* C11, as the specification states it: match_category with category
\* "skills", a non-empty requirement list and no job argument fails fast with
\* an error; it never returns a CategoryMatch with a silently defaulted score.
C11_SkillsWithoutJobFailsFast ==
    SkillsWithoutJob => (pc = "raised" /\ raised # <<>>)

\* C11, what the code does: without a job the test of line 108 sends the
\* skills category down the averaging branch; every match keeps the
\* final_score 0.0 and NO_MATCH of the first pass and the call returns
\* overall_score 0.
C11_SkillsWithoutJobReturnsZero ==
    SkillsWithoutJob =>
        /\ MatchReturned
        /\ raised = <<>>
        /\ MatchResult.overall_score = Zero
        /\ \A i \in DOMAIN MatchResult.matches :
              /\ MatchResult.matches[i].final_score = Zero
              /\ MatchResult.matches[i].match_quality = "No Match"

\* a top-rated skill matched exactly, scored 0 for want of a job
C11_Witness ==
    /\ SkillsWithoutJob
    /\ MatchReturned
    /\ MatchResult.matches[1].matched_item = <<"python">>
    /\ MatchResult.matches[1].similarity = One
    /\ MatchResult.matches[1].proficiency_score = <<5>>
    /\ MatchResult.overall_score = Zero

\* C15, as the specification states it: for any valid requirement (base
\* weight >= 0, base weights above 1 included) and any provider distance >= 0,
\* match_category returns a CategoryMatch in which every AttributeMatch has
\* similarity and final_score in [0,1] and overall_score is in [0,1].
C15_ScoresInUnitInterval ==
    pc # "match_category" =>
        /\ MatchReturned
        /\ InUnit(MatchResult.overall_score)
        /\ \A i \in DOMAIN MatchResult.matches :
              /\ InUnit(MatchResult.matches[i].similarity)
              /\ InUnit(MatchResult.matches[i].final_score)

\* requirement i of a category other than skills whose similarity x weight
\* exceeds 1
Overweight(i) ==
    /\ margs.category # "skills"
    /\ AnswerTo(i) # <<>>
    /\ RGt(RMul(similarity_of(AnswerTo(i)[1].distance),
                margs.job_requirements[i].weight), One)

\* C15, what the code does: a returned CategoryMatch has all its scores in
\* [0,1], but the call raises a ValidationError instead of returning exactly
\* when a requirement outside the skills category has similarity x weight > 1.
C15_ReturnsInUnitOrRaises ==
    pc # "match_category" =>
        /\ MatchReturned <=>
              ~\E i \in DOMAIN margs.job_requirements : Overweight(i)
        /\ ~MatchReturned => (pc = "raised" /\ raised = <<"ValidationError">>)
        /\ MatchReturned =>
              /\ InUnit(MatchResult.overall_score)
              /\ \A i \in DOMAIN MatchResult.matches :
                    /\ InUnit(MatchResult.matches[i].similarity)
                    /\ InUnit(MatchResult.matches[i].final_score)

\* an experience requirement of base weight 2 matched exactly: no result
C15_Witness ==
    /\ pc = "raised"
    /\ raised = <<"ValidationError">>
    /\ margs.category = "experience"
    /\ Len(margs.job_requirements) = 1
    /\ margs.job_requirements[1].weight = Two
    /\ AnswerTo(1)[1].distance = Zero

----------------------------------------------------------------------------
(* evaluate_candidates when an external call fails: the embedder           *)
(* (client.embeddings.create) for the texts of a category, or the          *)
(* similarity query (collection.query) of one requirement for a candidate. *)

CandidatesF == {"alice", "bob"}

JobsF ==
    {Job("job", "technical", Zero, SkillsE, ex, ed, <<>>) :
        ex \in {<<>>, ExperienceE}, ed \in {<<>>, EducationE}}

TextsOf(requirements) == [i \in DOMAIN requirements |-> get_text(requirements[i])]

\* no failure, or one failing call
FaultsF ==
    {NoFaults}
    \cup {[embed |-> {TextsOf(reqs)}, query |-> {}] : reqs \in {SkillsE, EducationE}}
    \cup {[embed |-> {}, query |-> {k}] :
             k \in {QueryKey("alice", "skills", SkillsE[1]),
                    QueryKey("alice", "experience", ExperienceE[1]),
                    QueryKey("bob", "education", EducationE[2])}}

InitFault ==
    /\ job \in JobsF
    /\ names \in SeqsUpTo(CandidatesF, MaxCandidates)
    /\ faults \in FaultsF
    /\ provider = ProviderE
    /\ accessor = NoAccessor
    /\ score = Zero
    /\ margs = NoMatchArgs
    /\ pc = "evaluate_candidates"
    /\ Fresh

SpecFault == InitFault /\ [][Next]_vars

----------------------------------------------------------------------------
(* Claims about failure propagation (SpecFault).                           *)

\* a call of the embedder that failed was made
EmbedderFailed == \E k \in DOMAIN embed_log : embedder_fails(embed_log[k])

\* a similarity query that failed was made
QueryFailed ==
    \E k \in DOMAIN query_log :
        query_fails(query_log[k].query_embedding, query_log[k].candidate_name,
                    query_log[k].category)

\* C12: if the embedder or the similarity query fails for any requirement
\* while a candidate is evaluated, the failure propagates to the caller of
\* evaluate_candidate / evaluate_candidates: the call ends with that exception
\* and returns nothing, so there is no evaluation of that candidate, none that
\* omits the failed category and none that scores the requirement as
\* unmatched.
C12_FailurePropagates ==
    /\ (EmbedderFailed \/ QueryFailed) =>
          /\ pc = "raised"
          /\ raised = <<IF EmbedderFailed THEN "EmbeddingError" ELSE "QueryError">>
          /\ Len(evaluations) = ci - 1
          /\ \A i \in DOMAIN evaluations : evaluations[i].candidate_name = names[i]
          /\ Len(category_results) = Len(match_calls) - 1
    /\ pc = "done" => ~(EmbedderFailed \/ QueryFailed)

\* the query of the second education requirement fails for the second
\* candidate, after the first was evaluated and the skills of the second
\* were matched
C12_Witness ==
    /\ pc = "raised"
    /\ raised = <<"QueryError">>
    /\ QueryFailed
    /\ ci = 2
    /\ Len(evaluations) = 1
    /\ match_calls = <<"skills", "education">>
    /\ Len(category_results) = 1
    /\ query_log[Len(query_log)].candidate_name = "bob"

----------------------------------------------------------------------------
(* The read accessors applied to an evaluation of a bounded family: up to  *)
(* two category results, which may bear the same name, the first with up   *)
(* to MaxMatches matches.                                                  *)

\* what a match may be: no item found (<<>>), or an item found with the final
\* score given; an item at distance >= 1 has similarity 0 and final score 0
FinalsA == {<<>>, <<Zero>>, <<R(1, 3)>>, <<R(9, 10)>>}

MatchA(category, i, f) ==
    IF f = <<>>
    THEN AttributeMatch(Description(category, i), <<>>, Zero, <<>>, Zero, "No Match")
    ELSE AttributeMatch(Description(category, i), <<"item">>,
                        IF f[1] = Zero THEN Zero ELSE One, <<>>, f[1],
                        get_match_quality_from_score(f[1]))

MatchesA(category, fs) == [i \in DOMAIN fs |-> MatchA(category, i, fs[i])]

CategoriesA == {"skills", "experience"}
ScoresA == {R(1, 4), R(3, 4)}

FirstResultsA ==
    {CategoryMatch(c, sc, MatchesA(c, fs)) :
        c \in CategoriesA, sc \in ScoresA, fs \in SeqsUpTo(FinalsA, MaxMatches)}

SecondResultsA ==
    {CategoryMatch(c, sc, MatchesA(c, <<<<R(9, 10)>>>>)) : c \in CategoriesA, sc \in ScoresA}

ResultsA ==
    {<<>>} \cup {<<a>> : a \in FirstResultsA}
           \cup {<<a, b>> : a \in FirstResultsA, b \in SecondResultsA}

InitAccessors ==
    /\ \E results \in ResultsA :
          evaluations = <<CandidateEvaluation("alice", "job", overall_score_of(results),
                                              results)>>
    /\ accessor \in [category : CategoriesA \cup {"education"}, top_n : 0..MaxTopN]
    /\ faults = NoFaults
    /\ job = NoJob
    /\ score = Zero
    /\ margs = NoMatchArgs
    /\ names = <<>>
    /\ provider = <<>>
    /\ pc = "accessor"
    /\ store = {}
    /\ api_calls_made = 0
    /\ cache_hits = 0
    /\ lookups = 0
    /\ query_log = <<>>
    /\ weights = <<>>
    /\ quality = <<>>
    /\ category_match = <<>>
    /\ ci = 1
    /\ ki = 1
    /\ category_results = <<>>
    /\ match_calls = <<>>
    /\ raised = <<>>
    /\ embed_log = <<>>
    /\ accessor_result = <<>>
    /\ weight_computations = 0
    /\ add_log = <<>>
    /\ calls = <<>>

GetCategoryScore ==
    /\ UNCHANGED <<weight_computations, add_log, calls>>
    /\ pc = "accessor"
    /\ accessor_result' = <<get_category_score(evaluations[1], accessor.category)>>
    /\ pc' = "got_category_score"
    /\ UNCHANGED <<job, score, margs, names, provider, store, api_calls_made,
                   cache_hits, lookups, query_log, weights, quality, category_match,
                   ci, ki, category_results, evaluations, match_calls, faults, raised,
                   embed_log, accessor>>

GetTopMatchesByCategory ==
    /\ UNCHANGED <<weight_computations, add_log, calls>>
    /\ pc = "accessor"
    /\ accessor_result' = <<get_top_matches_by_category(evaluations[1], accessor.category,
                                                        accessor.top_n)>>
    /\ pc' = "got_top_matches"
    /\ UNCHANGED <<job, score, margs, names, provider, store, api_calls_made,
                   cache_hits, lookups, query_log, weights, quality, category_match,
                   ci, ki, category_results, evaluations, match_calls, faults, raised,
                   embed_log, accessor>>

NextAccessors ==
    \/ GetCategoryScore
    \/ GetTopMatchesByCategory

SpecAccessors == InitAccessors /\ [][NextAccessors]_vars

----------------------------------------------------------------------------
(* Claims about the read accessors (SpecAccessors).                        *)

AccessedResults == evaluations[1].category_results

\* C13: get_category_score(category) returns the overall_score of the first
\* category result with that name, and 0 when the evaluation has no result
\* for that category.
C13_CategoryScoreOfFirst ==
    pc = "got_category_score" =>
        /\ Len(accessor_result) = 1
        /\ (\A k \in DOMAIN AccessedResults :
               AccessedResults[k].category # accessor.category)
              => accessor_result[1] = Zero
        /\ \A k \in DOMAIN AccessedResults :
              (/\ AccessedResults[k].category = accessor.category
               /\ \A h \in 1..(k - 1) : AccessedResults[h].category # accessor.category)
                  => accessor_result[1] = AccessedResults[k].overall_score

\* two results of the same name with different scores: the first is returned
C13_Witness ==
    /\ pc = "got_category_score"
    /\ Len(AccessedResults) = 2
    /\ AccessedResults[1].category = accessor.category
    /\ AccessedResults[2].category = accessor.category
    /\ AccessedResults[1].overall_score # AccessedResults[2].overall_score
    /\ accessor_result = <<AccessedResults[1].overall_score>>

\* the matches of the accessed category that have a matched_item
MatchedOfCategory ==
    LET hit == {k \in DOMAIN AccessedResults :
                   AccessedResults[k].category = accessor.category}
    IN  IF hit = {} THEN <<>>
        ELSE SelectSeq(AccessedResults[CHOOSE k \in hit : \A h \in hit : k <= h].matches,
                       LAMBDA m : m.matched_item # <<>>)

\* the result holds the top_n highest-final_score matches that have a
\* matched_item (all of them when there are fewer), in descending order
TopMatchesAsStated ==
    LET top == accessor_result[1]
        matched == MatchedOfCategory
        want == IF accessor.top_n < Len(matched) THEN accessor.top_n ELSE Len(matched)
    IN  /\ Len(top) = want
        /\ \A i \in DOMAIN top : top[i].matched_item # <<>>
        /\ \A i, k \in DOMAIN top : i < k => RGe(top[i].score, top[k].score)
        /\ \E p \in [DOMAIN top -> DOMAIN matched] :
              /\ \A i, k \in DOMAIN top : i # k => p[i] # p[k]
              /\ \A i \in DOMAIN top : top[i].requirement = matched[p[i]].requirement
              /\ \A i \in DOMAIN top :
                    \A j \in DOMAIN matched \ {p[k] : k \in DOMAIN top} :
                        RLe(matched[j].final_score, matched[p[i]].final_score)

\* C14, as the specification states it: get_top_matches_by_category returns
\* the n highest-final_score matches among the matches of the category that
\* have a non-null matched_item (all of them when fewer than n exist), in
\* descending final_score order; an unmatched requirement never displaces a
\* matched one.
C14_TopMatchesAreHighestMatched ==
    pc = "got_top_matches" => TopMatchesAsStated

\* C14, what the code does: the result never holds an unmatched requirement
\* nor more than top_n entries, and it is as stated whenever every matched
\* item has a positive final_score; a matched item of final_score 0 can lose
\* its place in the slice to an unmatched requirement listed before it.
C14_TopMatchesOfSlice ==
    pc = "got_top_matches" =>
        /\ Len(accessor_result[1]) <= accessor.top_n
        /\ Len(accessor_result[1]) <= Len(MatchedOfCategory)
        /\ \A i \in DOMAIN accessor_result[1] : accessor_result[1][i].matched_item # <<>>
        /\ (\A j \in DOMAIN MatchedOfCategory :
               RGt(MatchedOfCategory[j].final_score, Zero)) => TopMatchesAsStated

\* an unmatched requirement followed by an item matched at final_score 0,
\* top_n = 1: nothing is returned
C14_Witness ==
    /\ pc = "got_top_matches"
    /\ accessor.top_n = 1
    /\ Len(AccessedResults) = 1
    /\ AccessedResults[1].category = accessor.category
    /\ Len(AccessedResults[1].matches) = 2
    /\ AccessedResults[1].matches[1].matched_item = <<>>
    /\ AccessedResults[1].matches[2].matched_item # <<>>
    /\ accessor_result = << <<>> >>

----------------------------------------------------------------------------
(* Job.calculate_skill_weights on jobs given by the number of requirements *)
(* of each kind, all of one base weight and one required flag, over a grid *)
(* of years of experience in steps of half a year.                         *)

YearsK == {R(k, 2) : k \in 0..MaxHalfYears}

KindAt(i, nc, ns) == IF i <= nc THEN "core" ELSE IF i <= nc + ns THEN "soft" ELSE "tool"

InitKinds ==
    /\ \E nc, ns, nt \in 0..MaxPerKind, w \in {Zero, Half, One, Two}, req \in BOOLEAN,
          y \in YearsK, r \in RoleType :
          job = Job("job", r, y,
                    Requirements("skills",
                                 [i \in 1..(nc + ns + nt) |-> <<w, KindAt(i, nc, ns), req>>]),
                    <<>>, <<>>, <<>>)
    /\ faults = NoFaults
    /\ accessor = NoAccessor
    /\ score = Zero
    /\ margs = NoMatchArgs
    /\ names = <<>>
    /\ provider = <<>>
    /\ pc = "calculate_skill_weights"
    /\ Fresh

SpecKinds == InitKinds /\ [][CalculateSkillWeights]_vars

----------------------------------------------------------------------------
(* Claims about the weight formula (SpecWeights, SpecKinds).               *)

Counts == skill_type_counts_of(job.skills)

Senior == RGe(job.years_of_experience, <<5, 1>>)

\* max(0, 0.6 x (1 - years/5)) as the specification writes it
CoreFactorAsStated(years) ==
    RMax(Zero, RMul(<<6, 10>>, RSub(One, RDiv(years, <<5, 1>>))))

\* the type weight the code gives requirement i of the job
TypeWeight(i) ==
    calculate_weight_with_linear_core_decrease(job.skills[i].skill_type,
                                               job.years_of_experience, job.role_type,
                                               Counts)

\* the sum of the weights of the requirements of a kind
KindTotal(kind) ==
    LET idx == SelectIdx(Len(job.skills), 1,
                         {i \in DOMAIN job.skills : job.skills[i].skill_type = kind})
    IN  RSum([k \in DOMAIN idx |-> weights[idx[k]]])

ExampleSkills ==
    Requirements("skills", <<<<One, "core", TRUE>>, <<One, "tool", TRUE>>>>)

\* C16: when years_of_experience >= 5 and at least one SOFT or TOOL
\* requirement has a non-zero unnormalized weight, every CORE requirement
\* receives normalized weight exactly 0; the job [CORE required weight 1,
\* TOOL required weight 1] with role TECHNICAL at 5 years yields [0.0, 1.0].
C16_SeniorCoreWeightIsZero ==
    pc = "done" =>
        /\ (/\ Senior
            /\ \E i \in DOMAIN job.skills :
                  /\ job.skills[i].skill_type \in {"soft", "tool"}
                  /\ unnormalized_weights(job)[i] # Zero)
              => \A i \in DOMAIN job.skills :
                    job.skills[i].skill_type = "core" => weights[i] = Zero
        /\ (/\ job.skills = ExampleSkills
            /\ job.role_type = "technical"
            /\ job.years_of_experience = <<5, 1>>) => weights = <<Zero, One>>

\* the example job at 5 years
C16_Witness ==
    /\ pc = "done"
    /\ job.skills = ExampleSkills
    /\ job.role_type = "technical"
    /\ job.years_of_experience = <<5, 1>>
    /\ weights = <<Zero, One>>

RoleFactorAsStated(kind, role) ==
    CASE role = "technical" /\ kind = "tool" -> <<9, 10>>
      [] role = "technical" /\ kind = "soft" -> <<1, 10>>
      [] role = "leadership" /\ kind = "tool" -> <<4, 10>>
      [] role = "leadership" /\ kind = "soft" -> <<6, 10>>

\* the type weight of every SOFT or TOOL requirement is
\* (1 - coreFactor) x roleFactor(kind, role) / (number of that kind)
SeniorTypeWeightsAsStated ==
    \A i \in DOMAIN job.skills :
        job.skills[i].skill_type \in {"soft", "tool"} =>
            TypeWeight(i) =
                RDiv(RMul(RSub(One, CoreFactorAsStated(job.years_of_experience)),
                          RoleFactorAsStated(job.skills[i].skill_type, job.role_type)),
                     FromInt(Counts[job.skills[i].skill_type]))

EqualBasesAndFlags ==
    \A i, k \in DOMAIN job.skills :
        /\ job.skills[i].weight = job.skills[k].weight
        /\ job.skills[i].required = job.skills[k].required

\* total TOOL weight : total SOFT weight is 9:1 (TECHNICAL), 4:6 (LEADERSHIP)
SeniorRatioAsStated ==
    IF job.role_type = "technical"
    THEN KindTotal("tool") = RMul(FromInt(9), KindTotal("soft"))
    ELSE RMul(FromInt(6), KindTotal("tool")) = RMul(FromInt(4), KindTotal("soft"))

\* C17, as the specification states it: at years >= 5 the type weight of a
\* SOFT or TOOL requirement is (1 - coreFactor) x roleFactor / (count of that
\* kind), so with equal base weights and required flags the total normalized
\* weight of TOOL to that of SOFT is 9:1 for TECHNICAL and 4:6 for
\* LEADERSHIP, whatever the counts of each kind.
C17_SeniorRoleSplitAnyBase ==
    (pc = "done" /\ Senior) =>
        /\ SeniorTypeWeightsAsStated
        /\ (EqualBasesAndFlags /\ Counts["soft"] > 0 /\ Counts["tool"] > 0)
              => SeniorRatioAsStated

\* C17, amended: the type weights are as stated, and the 9:1 and 4:6 ratios
\* hold with equal base weights and required flags when the common base
\* weight is positive; with base weight 0 the unnormalized weights sum to 0
\* and every requirement gets 1/n.
C17_SeniorRoleSplit ==
    (pc = "done" /\ Senior) =>
        /\ SeniorTypeWeightsAsStated
        /\ (/\ EqualBasesAndFlags
            /\ Counts["soft"] > 0
            /\ Counts["tool"] > 0
            /\ RGt(job.skills[1].weight, Zero)) => SeniorRatioAsStated

\* a technical job past the threshold with two tools and one soft skill
C17_Witness ==
    /\ pc = "done"
    /\ Senior
    /\ job.role_type = "technical"
    /\ Counts = [core |-> 0, soft |-> 1, tool |-> 2]
    /\ KindTotal("tool") = <<9, 10>>
    /\ KindTotal("soft") = <<1, 10>>

\* C18: the core weight factor max(0, 0.6 x (1 - years/5)) is 0.6 at 0 years,
\* non-increasing in years over all years >= 0, never negative, and exactly 0
\* for every years >= 5.  With core and other requirements of one positive
\* base weight and flag it is the share of the weight the CORE requirements get.
C18_CoreFactorDecays ==
    pc = "done" =>
        LET f == core_weight_factor(job.years_of_experience)
        IN  /\ f = CoreFactorAsStated(job.years_of_experience)
            /\ RGe(f, Zero)
            /\ job.years_of_experience = Zero => f = <<3, 5>>
            /\ Senior => f = Zero
            /\ \A y \in YearsK :
                  RLe(job.years_of_experience, y) => RLe(core_weight_factor(y), f)
            /\ (/\ Counts["core"] > 0
                /\ Counts["soft"] + Counts["tool"] > 0
                /\ RGt(job.skills[1].weight, Zero)) => KindTotal("core") = f

\* half-way down the decay: the CORE requirements share 0.3
C18_Witness ==
    /\ pc = "done"
    /\ job.years_of_experience = <<5, 2>>
    /\ Counts["core"] = 2
    /\ Counts["tool"] = 1
    /\ core_weight_factor(job.years_of_experience) = <<3, 10>>
    /\ KindTotal("core") = <<3, 10>>

\* baseWeight x typeWeight x (3.0 if required else 1.0)
UnnormalizedAsStated(i) ==
    RMul(RMul(job.skills[i].weight, TypeWeight(i)),
         IF job.skills[i].required THEN <<3, 1>> ELSE <<1, 1>>)

\* C19: when the unnormalized weights sum to exactly 0 (all base weights 0,
\* or all requirements CORE at years >= 5, for example),
\* calculate_skill_weights returns 1/n for each of the n requirements;
\* otherwise each weight is its unnormalized weight, baseWeight x typeWeight x
\* (3.0 if required else 1.0), divided by that sum.
C19_FallbackOrNormalized ==
    (pc = "done" /\ job.skills # <<>>) =>
        LET n == Len(job.skills)
            total == RSum([i \in 1..n |-> UnnormalizedAsStated(i)])
        IN  /\ Len(weights) = n
            /\ total = Zero => \A i \in 1..n : weights[i] = <<1, n>>
            /\ total # Zero =>
                  \A i \in 1..n : weights[i] = RDiv(UnnormalizedAsStated(i), total)
            /\ (\A i \in 1..n : job.skills[i].weight = Zero) => total = Zero
            /\ (Senior /\ \A i \in 1..n : job.skills[i].skill_type = "core")
                  => total = Zero

\* two CORE requirements of different positive base weights past the
\* threshold: half each
C19_Witness ==
    /\ pc = "done"
    /\ Senior
    /\ Len(job.skills) = 2
    /\ \A i \in 1..2 : job.skills[i].skill_type = "core"
    /\ job.skills[1].weight = Two
    /\ job.skills[2].weight = Half
    /\ weights = <<Half, Half>>

OtherRole(r) == IF r = "technical" THEN "leadership" ELSE "technical"

\* C20: when years_of_experience < 5 every SOFT and every TOOL requirement
\* has the type weight (1 - coreFactor) / (countSoft + countTool) and every
\* CORE requirement coreFactor / countCore, so the weights do not depend on
\* the role type; [CORE required weight 1, TOOL required weight 1] at 0 years
\* yields [0.6, 0.4].
C20_JuniorEqualSplit ==
    (pc = "done" /\ ~Senior) =>
        LET cf == CoreFactorAsStated(job.years_of_experience)
        IN  /\ \A i \in DOMAIN job.skills :
                  TypeWeight(i) =
                      IF job.skills[i].skill_type = "core"
                      THEN RDiv(cf, FromInt(Counts["core"]))
                      ELSE RDiv(RSub(One, cf), FromInt(Counts["soft"] + Counts["tool"]))
            /\ weights = calculate_skill_weights(
                             [job EXCEPT !.role_type = OtherRole(job.role_type)])
            /\ (job.skills = ExampleSkills /\ job.years_of_experience = Zero)
                  => weights = <<<<3, 5>>, <<2, 5>>>>

\* the example job at 0 years, as a leadership role
C20_Witness ==
    /\ pc = "done"
    /\ job.years_of_experience = Zero
    /\ job.role_type = "leadership"
    /\ job.skills = ExampleSkills
    /\ weights = <<<<3, 5>>, <<2, 5>>>>

\* a required requirement i and a nice-to-have requirement k of the same kind
RequiredAndNiceToHave(i, k) ==
    /\ i \in DOMAIN job.skills
    /\ k \in DOMAIN job.skills
    /\ job.skills[i].skill_type = job.skills[k].skill_type
    /\ job.skills[i].required
    /\ ~job.skills[k].required

\* C21 as stated: of two requirements of the same kind in the same job, one
\* required and one nice-to-have, the required one's weight is at least the
\* nice-to-have one's, regardless of their base weights.
C21_RequiredDominatesAnyBase ==
    pc = "done" =>
        \A i, k \in DOMAIN job.skills :
            RequiredAndNiceToHave(i, k) => RGe(weights[i], weights[k])

\* C21: of two requirements of the same kind in the same job, one required
\* and one nice-to-have, the required one's weight is at least the
\* nice-to-have one's whenever the nice-to-have base weight is at most three
\* times the required base weight (equal base weights, for example).
C21_RequiredDominates ==
    pc = "done" =>
        \A i, k \in DOMAIN job.skills :
            (/\ RequiredAndNiceToHave(i, k)
             /\ RLe(job.skills[k].weight, RMul(<<3, 1>>, job.skills[i].weight)))
                => RGe(weights[i], weights[k])

\* two TOOL requirements of base weight 1 at 0 years, the required one first:
\* three quarters and one quarter
C21_Witness ==
    /\ pc = "done"
    /\ job.years_of_experience = Zero
    /\ job.skills = Requirements("skills", <<<<One, "tool", TRUE>>, <<One, "tool", FALSE>>>>)
    /\ RequiredAndNiceToHave(1, 2)
    /\ weights = <<<<3, 4>>, <<1, 4>>>>

----------------------------------------------------------------------------
(* Claims about the scores and the queries of match_category (SpecMatch).   *)

\* the skills category matched against the job that holds the requirements
SkillsOfJob ==
    /\ margs.category = "skills"
    /\ margs.job # <<>>
    /\ margs.job_requirements # <<>>
    /\ job.skills = margs.job_requirements

\* the proficiency read from the best match of requirement i, 3 when the
\* stored skill carries none
ProficiencyOf(i) ==
    IF AnswerTo(i)[1].skill_score = <<>> THEN 3 ELSE AnswerTo(i)[1].skill_score[1]

\* max(0, 1 - distance) of the nearest item answered for requirement i
SimilarityAsStated(i) ==
    LET d == AnswerTo(i)[1].distance
    IN  IF RGe(d, One) THEN Zero ELSE RSub(One, d)

\* C22: for the skills category with a job whose skills list is the
\* requirement list passed in, the final_score of the matched requirement at
\* index i is (proficiency of its best match / 5) x similarity_i x w_i, w_i
\* being the weight at index i of job.calculate_skill_weights(); unmatched
\* requirements keep final_score 0.
C22_SkillFinalScore ==
    (pc # "match_category" /\ SkillsOfJob) =>
        /\ MatchReturned
        /\ \A i \in DOMAIN margs.job_requirements :
              MatchResult.matches[i].final_score =
                  IF AnswerTo(i) = <<>> THEN Zero
                  ELSE RMul(RMul(R(ProficiencyOf(i), 5), SimilarityAsStated(i)),
                            calculate_skill_weights(job)[i])

\* a CORE and a TOOL requirement at 0 years (weights 0.6 and 0.4): python at
\* distance 0 rated 5 scores 0.6, sql at distance 0.05 without rating scores
\* 0.6 x 0.95 x 0.4
C22_Witness ==
    /\ MatchReturned
    /\ SkillsOfJob
    /\ calculate_skill_weights(job) = <<<<3, 5>>, <<2, 5>>>>
    /\ AnswerTo(1) = <<Hit("python", Zero, <<5>>)>>
    /\ AnswerTo(2) # <<>>
    /\ AnswerTo(2)[1] = Hit("sql", <<1, 20>>, <<>>)
    /\ MatchResult.matches[1].final_score = <<3, 5>>
    /\ MatchResult.matches[2].final_score = <<57, 250>>

\* a category other than skills, with requirements
OtherCategory == margs.category # "skills" /\ margs.job_requirements # <<>>

\* C23: outside the skills category each matched requirement's final_score
\* is similarity x the requirement's base weight, whatever the job's years of
\* experience, role type and skills (the call made with another job, or with
\* none, returns the same); the category overall_score is the arithmetic
\* mean of the final scores over all requirements, the unmatched ones counted
\* as 0; similarity 0.95 with base weight 1 gives final_score 0.95, EXCELLENT.
C23_OtherFinalScoreAndMean ==
    (MatchReturned /\ OtherCategory) =>
        LET n == Len(margs.job_requirements)
            asStated == [i \in 1..n |->
                            IF AnswerTo(i) = <<>> THEN Zero
                            ELSE RMul(SimilarityAsStated(i),
                                      margs.job_requirements[i].weight)]
        IN  /\ Len(MatchResult.matches) = n
            /\ \A i \in 1..n : MatchResult.matches[i].final_score = asStated[i]
            /\ MatchResult.overall_score = RDiv(RSum(asStated), FromInt(n))
            /\ \A j \in JobChoices(margs.category, margs.job_requirements) :
                  match_category(margs.job_requirements, margs.candidate_name,
                                 margs.category, j, {}).outcome = category_match[1]
            /\ \A i \in 1..n :
                  (/\ AnswerTo(i) # <<>>
                   /\ SimilarityAsStated(i) = <<19, 20>>
                   /\ margs.job_requirements[i].weight = One)
                      => /\ MatchResult.matches[i].final_score = <<19, 20>>
                         /\ MatchResult.matches[i].match_quality = "Excellent"

\* two experience requirements of a senior leadership job: the first, of
\* base weight 1, matched at similarity 0.95, the second unmatched; the mean
\* is 0.475
C23_Witness ==
    /\ MatchReturned
    /\ margs.category = "experience"
    /\ margs.job # <<>>
    /\ job.role_type = "leadership"
    /\ job.skills # <<>>
    /\ Len(margs.job_requirements) = 2
    /\ margs.job_requirements[1].weight = One
    /\ AnswerTo(1) # <<>>
    /\ AnswerTo(1)[1].distance = <<1, 20>>
    /\ AnswerTo(2) = <<>>
    /\ MatchResult.matches[1].final_score = <<19, 20>>
    /\ MatchResult.matches[1].match_quality = "Excellent"
    /\ MatchResult.overall_score = <<19, 40>>

\* C24: in every CategoryMatch returned by match_category (skills with a job,
\* skills without a job, and the other categories) each AttributeMatch has
\* match_quality = get_match_quality_from_score(its own final_score), and
\* every AttributeMatch with matched_item None has final_score 0 and
\* match_quality NO_MATCH.
C24_QualityOfFinalScore ==
    MatchReturned =>
        \A i \in DOMAIN MatchResult.matches :
            LET m == MatchResult.matches[i]
            IN  /\ m.match_quality = get_match_quality_from_score(m.final_score)
                /\ m.matched_item = <<>> =>
                      (m.final_score = Zero /\ m.match_quality = "No Match")

\* skills of a job: the first requirement scored 0.6, FAIR, the second
\* without a match
C24_Witness ==
    /\ MatchReturned
    /\ SkillsOfJob
    /\ Len(MatchResult.matches) = 2
    /\ MatchResult.matches[1].matched_item # <<>>
    /\ MatchResult.matches[1].final_score = <<3, 5>>
    /\ MatchResult.matches[1].match_quality = "Fair"
    /\ MatchResult.matches[2].matched_item = <<>>
    /\ MatchResult.matches[2].match_quality = "No Match"

\* C25: for each requirement match_category issues exactly one similarity
\* query, scoped to the given candidate and to the category
\* "candidate_<category>" with top-k 3, takes only the first (nearest)
\* returned item as the match, and sets similarity = max(0, 1 - distance of
\* that item), so that a distance >= 1 gives similarity 0 while still
\* counting as a match.
C25_OneQueryNearestItem ==
    /\ Len(query_log) <= Len(margs.job_requirements)
    /\ MatchReturned =>
          /\ Len(query_log) = Len(margs.job_requirements)
          /\ \A i \in DOMAIN margs.job_requirements :
                /\ query_log[i] =
                      [query_embedding |-> Embed(get_text(margs.job_requirements[i])),
                       candidate_name |-> margs.candidate_name,
                       category |-> "candidate_" \o margs.category,
                       n_results |-> 3]
                /\ AnswerTo(i) = <<>> => MatchResult.matches[i].matched_item = <<>>
                /\ AnswerTo(i) # <<>> =>
                      /\ MatchResult.matches[i].matched_item = <<AnswerTo(i)[1].document>>
                      /\ MatchResult.matches[i].similarity = SimilarityAsStated(i)
                      /\ RGe(AnswerTo(i)[1].distance, One)
                            => MatchResult.matches[i].similarity = Zero

\* the first requirement answered by two items, the nearer one taken; the
\* second answered by an item at distance 1.5, a match of similarity 0
C25_Witness ==
    /\ MatchReturned
    /\ Len(margs.job_requirements) = 2
    /\ Len(query_log) = 2
    /\ Len(AnswerTo(1)) = 2
    /\ MatchResult.matches[1].matched_item = <<"sql">>
    /\ MatchResult.matches[1].similarity = <<19, 20>>
    /\ AnswerTo(2) = <<Hit("cobol", <<3, 2>>, <<4>>)>>
    /\ MatchResult.matches[2].matched_item = <<"cobol">>
    /\ MatchResult.matches[2].similarity = Zero

\* C28: for a non-empty requirement list and an embedder that returns one
\* vector per text, the matches list returned by match_category has the
\* length of the requirement list and matches[i].requirement is the
\* description of requirement i, whether or not the requirement was matched.
C28_MatchesAlignedWithRequirements ==
    (MatchReturned /\ margs.job_requirements # <<>>) =>
        /\ Len(MatchResult.matches) = Len(margs.job_requirements)
        /\ \A i \in DOMAIN margs.job_requirements :
              MatchResult.matches[i].requirement = margs.job_requirements[i].description

\* two requirements, the first without a match and the second with one
C28_Witness ==
    /\ MatchReturned
    /\ Len(margs.job_requirements) = 2
    /\ margs.job_requirements[1].description # margs.job_requirements[2].description
    /\ AnswerTo(1) = <<>>
    /\ AnswerTo(2) # <<>>
    /\ MatchResult.matches[1].matched_item = <<>>
    /\ MatchResult.matches[2].matched_item # <<>>
    /\ MatchResult.matches[2].requirement = margs.job_requirements[2].description

----------------------------------------------------------------------------
(* Claim about the weight computations of evaluate_candidates (Spec).      *)

\* C26 as stated: when evaluate_candidates evaluates k >= 1 candidates
\* against one job with a non-empty skills category, the skills weight
\* vector of the job is computed once and shared by all k evaluations, not
\* recomputed per candidate.
C26_WeightsComputedOnce ==
    job.skills # <<>> => weight_computations <= 1

\* the candidates whose skills category has been matched so far
SkillsMatchedSoFar ==
    (ci - 1) + (IF pc \in {"evaluate_candidate", "raised"}
                   /\ \E k \in DOMAIN match_calls : match_calls[k] = "skills"
                THEN 1 ELSE 0)

\* C26, what the code does: job.calculate_skill_weights() runs once in every
\* match_category call of the skills category, so once per candidate; after
\* the return it has run as many times as there are candidates.
C26_WeightsComputedPerCandidate ==
    /\ job.skills # <<>> => weight_computations = SkillsMatchedSoFar
    /\ job.skills = <<>> => weight_computations = 0
    /\ (pc = "done" /\ job.skills # <<>>) => weight_computations = Len(names)

\* three candidates evaluated against a job with skills: three computations
C26_Witness ==
    /\ pc = "done"
    /\ job.skills # <<>>
    /\ Len(names) = 3
    /\ Len(evaluations) = 3
    /\ weight_computations = 3

----------------------------------------------------------------------------
(* EmbeddingManager.get_embeddings_with_storage called by two callers on   *)
(* one manager, for the same category and candidate.  Each lookup, the     *)
(* embedder call, the second lookup of store_embeddings and the add are    *)
(* steps of their own, so the calls run one after the other or interleaved.*)

Callers == {1, 2}
TextsC == {"a", "b"}
CategoryC == "job_skills"
CandidateC == ""

ItemsC == {JobRequirement(t, One, "core", TRUE) : t \in TextsC}

IdC(text) == generate_embedding_id(text, CategoryC, CandidateC)

TextsOfCall(c) == [i \in DOMAIN c.items |-> get_text(c.items[i])]

\* a call at its first line: embeddings, items_to_fetch and fetch_indices empty
NewCall(items) ==
    [items |-> items, pc |-> "check", cached |-> <<>>, fetch_indices |-> <<>>,
     embed_calls |-> <<>>, embeddings |-> <<>>, batch |-> <<>>]

InitCache ==
    /\ calls \in [Callers -> {NewCall(items) : items \in SeqsUpTo(ItemsC, MaxItems)}]
    /\ store \in {{}, {IdC("a")}, {IdC("a"), IdC("b")}}
    /\ pc = "get_embeddings_with_storage"
    /\ faults = NoFaults
    /\ accessor = NoAccessor
    /\ job = NoJob
    /\ score = Zero
    /\ margs = NoMatchArgs
    /\ names = <<>>
    /\ provider = <<>>
    /\ api_calls_made = 0
    /\ cache_hits = 0
    /\ lookups = 0
    /\ query_log = <<>>
    /\ weights = <<>>
    /\ quality = <<>>
    /\ category_match = <<>>
    /\ ci = 1
    /\ ki = 1
    /\ category_results = <<>>
    /\ evaluations = <<>>
    /\ match_calls = <<>>
    /\ raised = <<>>
    /\ embed_log = <<>>
    /\ accessor_result = <<>>
    /\ weight_computations = 0
    /\ add_log = <<>>

\* lines 37-51: one turn of the loop, the lookup of the next item
CacheCheck(p) ==
    LET c == calls[p]
        i == Len(c.cached) + 1
    IN  /\ c.pc = "check"
        /\ i <= Len(c.items)
        /\ \E hit \in {get_embedding(TextsOfCall(c)[i], CategoryC, CandidateC, store)} :
              /\ calls' = [calls EXCEPT
                              ![p].cached = Append(c.cached, hit),
                              ![p].fetch_indices =
                                  IF hit = <<>> THEN Append(c.fetch_indices, i)
                                  ELSE c.fetch_indices]
              /\ cache_hits' = cache_hits + (IF hit = <<>> THEN 0 ELSE 1)
        /\ lookups' = lookups + 1
        /\ UNCHANGED <<store, api_calls_made, embed_log, add_log>>
        /\ UNCHANGED <<job, score, margs, names, provider, query_log, pc, weights,
                       quality, category_match, ci, ki, category_results, evaluations,
                       match_calls, faults, raised, accessor, accessor_result,
                       weight_computations>>

\* lines 54-76: after the loop, the embedder is called with the texts that
\* missed and its vectors are put at their indices; with nothing to fetch
\* the call returns (line 87)
CacheFetch(p) ==
    LET c == calls[p]
        texts_to_fetch == texts_to_fetch_of(TextsOfCall(c), c.fetch_indices)
        fetched_embeddings == generate_embeddings(texts_to_fetch)
    IN  /\ c.pc = "check"
        /\ Len(c.cached) = Len(c.items)
        /\ IF c.fetch_indices = <<>>
           THEN /\ calls' = [calls EXCEPT
                                ![p].embeddings = merge_fetched(c.cached, <<>>, <<>>),
                                ![p].pc = "returned"]
                /\ UNCHANGED <<embed_log, api_calls_made>>
           ELSE /\ calls' = [calls EXCEPT
                                ![p].embed_calls = Append(c.embed_calls, texts_to_fetch),
                                ![p].embeddings =
                                    merge_fetched(c.cached, c.fetch_indices,
                                                  fetched_embeddings),
                                ![p].pc = "store"]
                /\ embed_log' = Append(embed_log, texts_to_fetch)
                /\ api_calls_made' = api_calls_made + 1
        /\ UNCHANGED <<store, cache_hits, lookups, add_log>>
        /\ UNCHANGED <<job, score, margs, names, provider, query_log, pc, weights,
                       quality, category_match, ci, ki, category_results, evaluations,
                       match_calls, faults, raised, accessor, accessor_result,
                       weight_computations>>

\* store_embeddings, lines 147-172: every fetched text is looked up again and
\* the ids still missing are collected; with none the call returns
CacheStoreLookup(p) ==
    LET c == calls[p]
    IN  /\ c.pc = "store"
        /\ \E r \in {store_embeddings(c.embed_calls[1], CategoryC, CandidateC, store)} :
              /\ calls' = [calls EXCEPT
                              ![p].batch = IF r.adds = <<>> THEN <<>> ELSE r.adds[1],
                              ![p].pc = IF r.adds = <<>> THEN "returned" ELSE "add"]
              /\ lookups' = lookups + r.lookups
              /\ cache_hits' = cache_hits + r.hits
        /\ UNCHANGED <<store, api_calls_made, embed_log, add_log>>
        /\ UNCHANGED <<job, score, margs, names, provider, query_log, pc, weights,
                       quality, category_match, ci, ki, category_results, evaluations,
                       match_calls, faults, raised, accessor, accessor_result,
                       weight_computations>>

\* store_embeddings, lines 174-185: collection.add of the batch.  A batch
\* that repeats an id is rejected and the exception printed; an id stored by
\* the other caller since the lookup is skipped or makes the add fail,
\* depending on the collection.
CacheAdd(p) ==
    LET c == calls[p]
        ids == {c.batch[k] : k \in DOMAIN c.batch}
    IN  /\ c.pc = "add"
        /\ add_log' = Append(add_log, c.batch)
        /\ store' \in IF HasDuplicates(c.batch) THEN {store}
                      ELSE IF ids \cap store # {} THEN {store, store \cup ids}
                      ELSE {store \cup ids}
        /\ calls' = [calls EXCEPT ![p].pc = "returned"]
        /\ UNCHANGED <<api_calls_made, cache_hits, lookups, embed_log>>
        /\ UNCHANGED <<job, score, margs, names, provider, query_log, pc, weights,
                       quality, category_match, ci, ki, category_results, evaluations,
                       match_calls, faults, raised, accessor, accessor_result,
                       weight_computations>>

NextCache ==
    \E p \in Callers :
        \/ CacheCheck(p)
        \/ CacheFetch(p)
        \/ CacheStoreLookup(p)
        \/ CacheAdd(p)

SpecCache == InitCache /\ [][NextCache]_vars

----------------------------------------------------------------------------
(* Claims about the embedding cache (SpecCache).                           *)

\* the indices of the items of call c that missed the cache, ascending
MissedOf(c) == SelectIdx(Len(c.cached), 1, {i \in DOMAIN c.cached : c.cached[i] = <<>>})

\* C29: get_embeddings_with_storage returns a list of the length of its
\* items in which position i holds the embedding of item i (the cached one
\* on a hit, the freshly fetched one on a miss), no position left None; it
\* calls the embedder at most once per invocation, with exactly the texts
\* that missed the cache in their original order, and not at all when every
\* item hits.
C29_EmbeddingsAlignedOneFetch ==
    \A p \in Callers :
        LET c == calls[p]
            texts == TextsOfCall(c)
            missed == MissedOf(c)
        IN  /\ Len(c.embed_calls) <= 1
            /\ c.pc = "returned" =>
                  /\ Len(c.embeddings) = Len(c.items)
                  /\ \A i \in DOMAIN c.items :
                        /\ c.embeddings[i] = Embed(texts[i])
                        /\ c.cached[i] # <<>> => c.embeddings[i] = c.cached[i][1]
                  /\ missed = <<>> => c.embed_calls = <<>>
                  /\ missed # <<>> =>
                        c.embed_calls = <<[k \in DOMAIN missed |-> texts[missed[k]]]>>

\* a call for "a" and "b" with "a" cached: one embedder call, for "b" alone
C29_Witness ==
    \E p \in Callers :
        /\ calls[p].pc = "returned"
        /\ TextsOfCall(calls[p]) = <<"a", "b">>
        /\ calls[p].cached = <<<<Embed("a")>>, <<>>>>
        /\ calls[p].embed_calls = <<<<"b">>>>
        /\ calls[p].embeddings = <<Embed("a"), Embed("b")>>

\* the callers that sent the text to the embedder
FetchersOf(text) ==
    {p \in Callers :
        \E k \in DOMAIN calls[p].embed_calls :
            \E m \in DOMAIN calls[p].embed_calls[k] : calls[p].embed_calls[k][m] = text}

\* the add calls whose batch holds the id of the text
AddsOf(text) ==
    {k \in DOMAIN add_log : \E m \in DOMAIN add_log[k] : add_log[k][m] = IdC(text)}

\* C27 as stated: the embedding cache is a read-through cache with at most
\* one external fetch per key: of two get_embeddings_with_storage calls for
\* the same (text, category, candidate) key, run concurrently or one after
\* the other, at most one calls the embedder for that key, and the key is
\* stored at most once.
C27_AtMostOneFetchPerKey ==
    \A t \in TextsC :
        /\ Cardinality(FetchersOf(t)) <= 1
        /\ Cardinality(AddsOf(t)) <= 1

\* C27, what the code does: a key found in the store by a call's lookup is
\* not fetched by that call; nothing else keeps two calls from fetching the
\* same key.
C27_FetchOnlyOnMiss ==
    [][\A p \in Callers :
          LET i == Len(calls[p].cached) + 1
          IN  (/\ calls[p].pc = "check"
               /\ Len(calls'[p].cached) = i
               /\ IdC(TextsOfCall(calls[p])[i]) \in store)
                  => calls'[p].fetch_indices = calls[p].fetch_indices]_vars

\* both callers asked for "a" on a cold cache and both sent it to the
\* embedder
C27_Witness ==
    /\ \A p \in Callers :
          /\ calls[p].pc = "returned"
          /\ TextsOfCall(calls[p]) = <<"a">>
          /\ calls[p].embed_calls = <<<<"a">>>>
    /\ embed_log = <<<<"a">>, <<"a">>>>
    /\ FetchersOf("a") = Callers
    /\ IdC("a") \in store

\* C30 as stated: after get_embeddings_with_storage returns successfully on
\* any item list, a list that holds the same text twice on a cold cache
\* included, every item's text is in the store under its (category,
\* candidate, text) id; equivalently store_embeddings never hands one
\* collection.add call a batch that holds the same id twice.
C30_EveryItemStored ==
    /\ \A p \in Callers :
          calls[p].pc = "returned" =>
              \A i \in DOMAIN calls[p].items : IdC(TextsOfCall(calls[p])[i]) \in store
    /\ \A k \in DOMAIN add_log : ~HasDuplicates(add_log[k])

\* C30, what the code does: whatever a lookup found stays in the store, and a
\* call that has returned alone, with no text repeated among those it
\* fetched, has all its items in the store.
C30_StoredUnlessRepeated ==
    /\ \A p \in Callers :
          \A i \in DOMAIN calls[p].cached :
              calls[p].cached[i] # <<>> => IdC(TextsOfCall(calls[p])[i]) \in store
    /\ \A p \in Callers :
          (/\ calls[p].pc = "returned"
           /\ \A q \in Callers \ {p} : calls[q].cached = <<>>
           /\ \A k \in DOMAIN calls[p].embed_calls : ~HasDuplicates(calls[p].embed_calls[k]))
              => \A i \in DOMAIN calls[p].items : IdC(TextsOfCall(calls[p])[i]) \in store

\* the text "a" twice on a cold cache: the call returned two vectors, the add
\* was handed the id twice and the store is still empty
C30_Witness ==
    \E p \in Callers :
        /\ calls[p].pc = "returned"
        /\ TextsOfCall(calls[p]) = <<"a", "a">>
        /\ calls[p].embeddings = <<Embed("a"), Embed("a")>>
        /\ add_log = <<<<IdC("a"), IdC("a")>>>>
        /\ store = {}

====
